---- MODULE Spec2Model ----
(***************************************************************************)
(* The guided workflow of the Spec Kit demo backend: the process-wide      *)
(* session (session_service.py, models/session.py), the workflow engine    *)
(* (workflow_service.py), the HTTP handlers that mutate the session        *)
(* (api/workflow.py) and the artifact generator (artifact_generator.py).   *)
(*                                                                         *)
(* Text.  A Python str is modelled as a sequence of tokens.  A token is    *)
(* either a newline "\n", the Previous Context marker, a horizontal rule   *)
(* "---", or an atom: a run of characters that holds no newline, no        *)
(* marker, does not start with "---" and is not white space.               *)
(*  str.find, str.rstrip, str.lstrip, slicing and concatenation are  *)
(* then computed on the token sequence exactly as Python computes them on  *)
(* the characters.  Fixed runs of template lines that hold neither the     *)
(* marker nor a rule line are folded into one atom.                        *)
(*                                                                         *)
(* Not modelled: uuid/timestamp values of log entries and artifacts, the   *)
(* rendered HTML, durations and token counts.                              *)
(***************************************************************************)
EXTENDS Integers, Sequences, FiniteSets, TLC

(***************************************************************************)
(* Tokens                                                                  *)
(***************************************************************************)
NL == "\n"
\* marker = "## (clipboard) Previous Context", workflow_service.py:354
MARK == "## Previous Context"
\* the three dashes of a horizontal-rule line; "\n---" is <<NL, HR>>
HR == "---"

\* the four blanks that indent one line of the tasks template
INDENT == "    "

\* str.isspace on a token
IsSpace(tok) == tok \in {NL, INDENT}

\* Python truthiness of a str / list
Truthy(s) == s # <<>>

\* a or b  on strings / lists
OrElse(a, b) == IF Truthy(a) THEN a ELSE b

RECURSIVE Concat(_)
\* "".join(parts)
Concat(parts) == IF parts = <<>> THEN <<>> ELSE Head(parts) \o Concat(Tail(parts))

RECURSIVE JoinWith(_, _)
\* sep.join(parts)
JoinWith(sep, parts) ==
  IF parts = <<>> THEN <<>>
  ELSE IF Len(parts) = 1 THEN parts[1]
  ELSE parts[1] \o sep \o JoinWith(sep, Tail(parts))

\* markdown[a:b] with 1-based inclusive bounds; empty when a > b
Slice(s, a, b) == IF a > b THEN <<>> ELSE SubSeq(s, a, b)

\* s.find(tok, from): least index >= from holding tok, 0 when there is none
\* (Python's -1)
FindTok(s, tok, from) ==
  LET hits == {i \in from..Len(s) : s[i] = tok}
  IN IF hits = {} THEN 0 ELSE CHOOSE i \in hits : \A j \in hits : i <= j

\* markdown.find("\n---") searching from the top of the text
FindRuleFromTop(s, from) ==
  LET hits == {i \in 1..(Len(s) - 1) : s[i] = NL /\ s[i + 1] = HR}
  IN IF hits = {} THEN 0 ELSE CHOOSE i \in hits : \A j \in hits : i <= j

\* s.find("\n---", from): a newline directly followed by three dashes
FindRule(s, from) ==
  LET hits == {i \in from..(Len(s) - 1) : s[i] = NL /\ s[i + 1] = HR}
  IN IF hits = {} THEN 0 ELSE CHOOSE i \in hits : \A j \in hits : i <= j

\* s.rstrip() with the trimming left out
RStripNothing(s) == s

\* s.rstrip()
RStrip(s) ==
  LET keep == {i \in 1..Len(s) : ~IsSpace(s[i])}
  IN IF keep = {} THEN <<>>
     ELSE SubSeq(s, 1, CHOOSE i \in keep : \A j \in keep : j <= i)

\* s.lstrip()
LStrip(s) ==
  LET keep == {i \in 1..Len(s) : ~IsSpace(s[i])}
  IN IF keep = {} THEN <<>>
     ELSE SubSeq(s, CHOOSE i \in keep : \A j \in keep : i <= j, Len(s))

\* number of occurrences of the marker in a text
CountTok(s, tok) == Cardinality({i \in 1..Len(s) : s[i] = tok})

\* _strip_previous_context_block with the stripping left out
StripNothing(markdown) == markdown

\* def _strip_previous_context_block(markdown)
StripPreviousContextBlock(markdown) ==
  IF ~Truthy(markdown) \/ FindTok(markdown, MARK, 1) = 0 THEN markdown
  ELSE
    LET start == FindTok(markdown, MARK, 1)
        sep_start == FindRule(markdown, start)
    IN IF sep_start = 0 THEN RStrip(Slice(markdown, 1, start - 1))
       ELSE
         LET sep_line_end == FindTok(markdown, NL, sep_start + 1)
         IN IF sep_line_end = 0 THEN RStrip(Slice(markdown, 1, start - 1))
            ELSE
              LET before == RStrip(Slice(markdown, 1, start - 1))
                  after == LStrip(Slice(markdown, sep_line_end + 1, Len(markdown)))
              IN IF Truthy(before) /\ Truthy(after)
                   THEN before \o <<NL, NL>> \o after
                   ELSE OrElse(before, after)

(***************************************************************************)
(* Scenario catalog                                                        *)
(***************************************************************************)
\* valid_phases, models/generated_artifact.py:47
ValidPhases == {"specify", "clarify", "plan", "tasks", "implement"}

\* valid_types, models/generated_artifact.py:40
ValidArtifactTypes == {"spec", "plan", "tasks", "implement"}

\* the scenario files the loader finds on disk (backend/data/scenarios/*.json),
\* as DemoScenario(**data) builds them.  A phase descriptor is modelled by its
\* phase_name.  The second scenario declares a phase list that does not begin
\* with "specify" and has no preset clarifications.
FixedScenarios ==
  [ x \in {"user-authentication", "ops-runbook"} |->
      IF x = "user-authentication"
      THEN [ id |-> x,
             title |-> "User Authentication",
             description |-> "Secure login for the product",
             domain |-> "security",
             is_custom |-> FALSE,
             workflow_phases |-> <<"specify", "clarify", "plan", "tasks", "implement">>,
             initial_prompt |-> <<"Build a login feature">>,
             tech_stack |-> <<"Python", "Flask">>,
             demo_clarifications |->
               << [question |-> "Which login methods?", answer |-> <<"Email and password">>] >> ]
      ELSE [ id |-> x,
             title |-> "Ops Runbook",
             description |-> "Runbook automation for operators",
             domain |-> "infrastructure",
             is_custom |-> FALSE,
             workflow_phases |-> <<"plan", "tasks", "implement">>,
             initial_prompt |-> <<"Automate the runbook">>,
             tech_stack |-> <<>>,
             demo_clarifications |-> <<>> ] ]

\* the definitions in the loader's scenarios directory, by file stem: the two
\* above and one whose title is shorter than DemoScenario accepts
ScenarioFiles ==
  [ x \in DOMAIN FixedScenarios \cup {"short-title"} |->
      IF x \in DOMAIN FixedScenarios THEN FixedScenarios[x]
      ELSE [FixedScenarios["user-authentication"] EXCEPT !.id = x, !.title = "Auth"] ]

\* one character of a Python str
Char(s, i) == SubSeq(s, i, i)

\* the characters str.strip() removes
Whitespace == {" ", "\t", "\n"}

\* s without its leading characters of a set
RECURSIVE LStripChars(_, _)
LStripChars(s, chars) ==
  IF s # "" /\ Char(s, 1) \in chars THEN LStripChars(SubSeq(s, 2, Len(s)), chars) ELSE s

\* s without its trailing characters of a set
RECURSIVE RStripChars(_, _)
RStripChars(s, chars) ==
  IF s # "" /\ Char(s, Len(s)) \in chars
  THEN RStripChars(SubSeq(s, 1, Len(s) - 1), chars)
  ELSE s

\* str.strip()
Strip(s) == RStripChars(LStripChars(s, Whitespace), Whitespace)

Uppers == "ABCDEFGHIJKLMNOPQRSTUVWXYZ"
Lowers == "abcdefghijklmnopqrstuvwxyz"
Digits == "0123456789"

\* the characters the class [a-z0-9] matches
SlugChars == {Char(Lowers, i) : i \in 1..Len(Lowers)} \cup {Char(Digits, i) : i \in 1..Len(Digits)}

\* str.lower() of one character
LowerChar(c) ==
  IF \E i \in 1..Len(Uppers) : Char(Uppers, i) = c
  THEN Char(Lowers, CHOOSE i \in 1..Len(Uppers) : Char(Uppers, i) = c)
  ELSE c

\* what re.sub(r'[^a-z0-9]+', '-', s.lower()) leaves of character i: the
\* character itself, one hyphen for the first character of a run of other
\* characters, nothing for the rest of the run
SlugPiece(s, i) ==
  LET c == LowerChar(Char(s, i))
  IN IF c \in SlugChars THEN c
     ELSE IF i > 1 /\ LowerChar(Char(s, i - 1)) \notin SlugChars THEN ""
     ELSE "-"

\* the pieces of the characters lo..hi of s, joined
RECURSIVE SubNonSlugRuns(_, _, _)
SubNonSlugRuns(s, lo, hi) ==
  IF lo > hi THEN ""
  ELSE IF lo = hi THEN SlugPiece(s, lo)
  ELSE LET mid == (lo + hi) \div 2
       IN SubNonSlugRuns(s, lo, mid) \o SubNonSlugRuns(s, mid + 1, hi)

\* id_cleaned.isalnum() of a non-empty id, on the characters of the model
IdIsValid(id) ==
  /\ id # ""
  /\ \E i \in 1..Len(id) : Char(id, i) \notin {"-", "_"}
  /\ \A i \in 1..Len(id) :
       LowerChar(Char(id, i)) \in SlugChars \cup {"-", "_"}

VALID_DOMAINS == {"security", "ecommerce", "analytics", "infrastructure", "data", "ui", "other"}

\* DemoScenario.__post_init__: TRUE when no ValueError is raised (complexity
\* and duration are the constants the callers pass)
PostInit(scenario) ==
  /\ IdIsValid(scenario.id)
  /\ 5 <= Len(scenario.title) /\ Len(scenario.title) <= 100
  /\ 20 <= Len(scenario.description) /\ Len(scenario.description) <= 500
  /\ scenario.is_custom \/ scenario.domain \in VALID_DOMAINS

\* datetime.utcnow().strftime("%Y-%m-%d"): one atom, the day of the run
Today == "2026-11-01"

(***************************************************************************)
(* Context builder: WorkflowService._build_artifact_context                *)
(***************************************************************************)
\* dict.get(phase, {}).get("input", "")
InputOf(all_phase_inputs, phase) ==
  IF phase \in DOMAIN all_phase_inputs THEN all_phase_inputs[phase].input ELSE <<>>

\* dict.get(phase, {}).get("clarifications", [])
ClarificationsOf(all_phase_inputs, phase) ==
  IF phase \in DOMAIN all_phase_inputs THEN all_phase_inputs[phase].clarifications ELSE <<>>

\* the lookup of a cached markdown finding none
ArtifactMarkdownMissing(all_phase_inputs, phase) == <<>>

\* dict.get(phase, {}).get("artifact_markdown", "")
ArtifactMarkdownOf(all_phase_inputs, phase) ==
  IF phase \in DOMAIN all_phase_inputs THEN all_phase_inputs[phase].artifact_markdown ELSE <<>>

\* [f"**Q:** {q}\n**A:** {a}" for c in clarifications if c.get("answer")]
QaPairs(clarifications) ==
  LET answered == SelectSeq(clarifications, LAMBDA c : Truthy(c.answer))
  IN [ i \in 1..Len(answered) |->
         <<"**Q:** ", answered[i].question, NL, "**A:** ">> \o answered[i].answer ]

\* the preset clarifications standing in whatever the target phase
EffectiveClarificationsAnyPhase(scenario, phase_name, clarifications) ==
  IF /\ ~scenario.is_custom
     /\ ~Truthy(clarifications)
     /\ Truthy(scenario.demo_clarifications)
  THEN scenario.demo_clarifications
  ELSE clarifications

\* the preset clarifications stand in for missing live ones
EffectiveClarifications(scenario, phase_name, clarifications) ==
  IF /\ ~scenario.is_custom
     /\ ~Truthy(clarifications)
     /\ Truthy(scenario.demo_clarifications)
     /\ phase_name \in {"clarify", "plan", "tasks", "implement"}
  THEN scenario.demo_clarifications
  ELSE clarifications

\* formatted_clarifications = "\n\n".join(qa_pairs)
FormatClarifications(effective) ==
  IF Truthy(effective) THEN JoinWith(<<NL, NL>>, QaPairs(effective)) ELSE <<>>

BuildArtifactContext(scenario, phase_name, user_input, clarifications, all_phase_inputs) ==
  LET specify_input == InputOf(all_phase_inputs, "specify")
      plan_input == InputOf(all_phase_inputs, "plan")
      tasks_input == InputOf(all_phase_inputs, "tasks")
      plan_artifact_markdown ==
        StripPreviousContextBlock(ArtifactMarkdownOf(all_phase_inputs, "plan"))
      tasks_artifact_markdown ==
        StripPreviousContextBlock(ArtifactMarkdownOf(all_phase_inputs, "tasks"))
      effective == EffectiveClarifications(scenario, phase_name, clarifications)
  IN [ title |-> scenario.title,
       description |-> scenario.description,
       domain |-> scenario.domain,
       initial_prompt |-> scenario.initial_prompt,
       date |-> Today,
       current_phase |-> phase_name,
       user_input |-> user_input,
       specify_input |-> OrElse(specify_input, scenario.initial_prompt),
       clarifications |-> FormatClarifications(effective),
       clarifications_list |-> effective,
       plan_input |-> OrElse(plan_artifact_markdown, plan_input),
       tasks_input |-> OrElse(tasks_artifact_markdown, tasks_input),
       tech_stack |-> JoinWith(<<", ">>, [i \in 1..Len(scenario.tech_stack) |-> <<scenario.tech_stack[i]>>]) ]

(***************************************************************************)
(* Artifact generator: ArtifactGenerator.generate_with_context             *)
(***************************************************************************)
\* "*Generated on {date}*\n", the last lines of every routine
GeneratedFooter(context) ==
  <<"## Generated", NL, NL, "*Generated on ", context.date, "*", NL>>

\* _generate_spec_content
GenerateSpecContent(scenario, context) ==
  LET user_input == OrElse(context.user_input, context.specify_input)
      specification_content == IF Truthy(user_input) THEN user_input ELSE scenario.initial_prompt
  IN <<"# Feature Specification: ", context.title, NL, NL,
       "## Overview", NL, NL, context.description, NL, NL,
       "## User Specification Input", NL, NL, "> ">> \o specification_content
     \o <<NL, NL, "## Domain", NL, NL, "**Industry/Domain:** ", context.domain, NL, NL,
          "## Technical Context", NL, NL>>
     \o (IF Truthy(context.tech_stack) THEN <<"**Tech Stack:** ">> \o context.tech_stack ELSE <<>>)
     \o <<NL, NL, "## Analysis ... ## Next Steps ... Clarification phase", NL, NL>>
     \o GeneratedFooter(context)

\* _generate_clarify_content
GenerateClarifyContent(scenario, context) ==
  LET clarifications == context.clarifications
      user_input == context.user_input
      specify_input == context.specify_input
      previous_context ==
        IF Truthy(specify_input) /\ specify_input # scenario.initial_prompt
        THEN <<NL, MARK, ": Specification Phase", NL, NL,
               "> **User Input from Specify Phase:**", NL, "> ", NL, "> ">>
             \o specify_input \o <<NL, NL, HR, NL>>
        ELSE <<>>
  IN <<"# Clarification Summary: ", context.title, NL>> \o previous_context
     \o <<NL, "## Original Requirements", NL, NL>> \o scenario.initial_prompt
     \o <<NL, NL, "## Clarifying Questions & Answers", NL, NL>>
     \o (IF Truthy(clarifications) THEN clarifications
         ELSE <<"*Answer the questions above and click 'Generate Artifact' to see your clarifications here.*">>)
     \o <<NL, NL, "## Additional Context", NL, NL>>
     \o (IF Truthy(user_input) THEN user_input ELSE <<"*No additional context provided.*">>)
     \o <<NL, NL, "## Next Steps ... detailed implementation plan", NL, NL>>
     \o GeneratedFooter(context)

\* the clarifications echoed in a "Clarifications Applied" section
ClarificationsApplied(clarifications) ==
  <<"## Clarifications Applied", NL, NL>>
  \o (IF Truthy(clarifications) THEN clarifications
      ELSE <<"*No clarifications were provided.*">>)

\* previous_section of the plan, tasks and implement routines
PreviousSection(previous_context) ==
  IF Truthy(previous_context)
  THEN <<NL, MARK, NL, NL>> \o previous_context \o <<NL, NL, HR, NL>>
  ELSE <<>>

\* _generate_plan_content
GeneratePlanContent(scenario, context) ==
  LET user_input == context.user_input
      specify_input == context.specify_input
      clarifications == context.clarifications
      from_specify ==
        IF Truthy(specify_input) /\ specify_input # scenario.initial_prompt
        THEN <<NL, "> **From Specify Phase:**", NL, "> ">> \o specify_input \o <<NL>>
        ELSE <<>>
      from_clarify ==
        IF Truthy(clarifications)
        THEN <<NL, "> **From Clarify Phase:**", NL, "> ">> \o clarifications \o <<NL>>
        ELSE <<>>
      previous_context == from_specify \o from_clarify
      default_approach ==
        <<NL, "### Architecture Overview ... ### Technology Stack", NL, NL>>
        \o context.tech_stack
        \o <<NL, NL, "### Key Design Decisions", NL, NL,
             "- Follow industry best practices for ", context.domain, NL,
             "- Implement comprehensive error handling ... maintainability", NL>>
  IN <<"# Implementation Plan: ", context.title, NL>> \o PreviousSection(previous_context)
     \o <<NL, "## Executive Summary", NL, NL,
          "This plan outlines the implementation approach for ", context.title, ".", NL, NL,
          "## Requirements Summary", NL, NL>> \o scenario.initial_prompt
     \o <<NL, NL>> \o ClarificationsApplied(clarifications)
     \o <<NL, NL, "## Technical Approach", NL, NL>>
     \o (IF Truthy(user_input) THEN user_input ELSE default_approach)
     \o <<NL, NL, "## Implementation Phases", NL, NL,
          "1. Phase 1: Foundation ... 4. Phase 4: Polish", NL, NL>>
     \o GeneratedFooter(context)

\* previous_context_parts of the tasks routine: plan > clarifications > specify
TasksPreviousContextParts(scenario, context) ==
  IF Truthy(context.plan_input)
    THEN <<"> **From Plan Phase:**", NL, "> ">> \o context.plan_input
  ELSE IF Truthy(context.clarifications)
    THEN <<"> **From Clarify Phase:**", NL, "> ">> \o context.clarifications
  ELSE IF Truthy(context.specify_input) /\ context.specify_input # scenario.initial_prompt
    THEN <<"> **From Specify Phase:**", NL, "> ">> \o context.specify_input
  ELSE <<>>

\* _generate_tasks_content
GenerateTasksContent(scenario, context) ==
  LET user_input == context.user_input
      custom_requirements_section ==
        IF Truthy(user_input) THEN <<"## Custom Requirements", NL, NL>> \o user_input ELSE <<>>
  IN <<"# Task Breakdown: ", context.title, NL>>
     \o PreviousSection(TasksPreviousContextParts(scenario, context))
     \o <<NL, "## Overview", NL, NL,
          "This document contains the detailed task breakdown for implementing ",
          context.title, ".", NL, NL, INDENT>> \o custom_requirements_section
     \o <<NL, NL>> \o ClarificationsApplied(context.clarifications)
     \o <<NL, NL, "## Phase 1: Setup & Foundation ... ## Dependencies ...", NL, NL>>
     \o GeneratedFooter(context)

\* previous_context_parts of the implement routine:
\* tasks > plan > clarifications > specify
ImplementPreviousContextParts(scenario, context) ==
  IF Truthy(context.tasks_input)
    THEN <<"> **From Tasks Phase:**", NL, "> ">> \o context.tasks_input
  ELSE IF Truthy(context.plan_input)
    THEN <<"> **From Plan Phase:**", NL, "> ">> \o context.plan_input
  ELSE IF Truthy(context.clarifications)
    THEN <<"> **From Clarify Phase:**", NL, "> ">> \o context.clarifications
  ELSE IF Truthy(context.specify_input) /\ context.specify_input # scenario.initial_prompt
    THEN <<"> **From Specify Phase:**", NL, "> ">> \o context.specify_input
  ELSE <<>>

\* _generate_implement_content
GenerateImplementContent(scenario, context) ==
  LET user_input == context.user_input
      implementation_notes_section ==
        IF Truthy(user_input) THEN <<"## Implementation Notes", NL, NL>> \o user_input ELSE <<>>
  IN <<"# Implementation: ", context.title, NL>>
     \o PreviousSection(ImplementPreviousContextParts(scenario, context))
     \o <<NL, "## Implementation Progress ... ## Summary of Workflow ...", NL, NL>>
     \o ClarificationsApplied(context.clarifications)
     \o <<NL, NL>> \o implementation_notes_section
     \o <<NL, NL, "## What's Next? ... ## Demo Complete ...", NL, NL>>
     \o GeneratedFooter(context)

\* the dispatch of generate_with_context: [markdown, artifact_type]
DispatchPhase(phase_name, scenario, context) ==
  CASE phase_name = "specify" ->
         [markdown |-> GenerateSpecContent(scenario, context), artifact_type |-> "spec"]
    [] phase_name = "clarify" ->
         [markdown |-> GenerateClarifyContent(scenario, context), artifact_type |-> "spec"]
    [] phase_name = "plan" ->
         [markdown |-> GeneratePlanContent(scenario, context), artifact_type |-> "plan"]
    [] phase_name = "tasks" ->
         [markdown |-> GenerateTasksContent(scenario, context), artifact_type |-> "tasks"]
    [] phase_name = "implement" ->
         [markdown |-> GenerateImplementContent(scenario, context), artifact_type |-> "implement"]
    [] OTHER ->
         [markdown |-> <<"# ", phase_name, " Phase", NL, NL, "No content generated for this phase.">>,
          artifact_type |-> phase_name]

\* GeneratedArtifact.__post_init__: the constructor raises ValueError unless
\* the type and the phase are known ones (every generated text is longer than
\* the 10 characters it also asks for)
ArtifactIsValid(artifact_type, phase_name) ==
  artifact_type \in ValidArtifactTypes /\ phase_name \in ValidPhases

\* no artifact (Python's None / a missing key)
NoArtifact ==
  [present |-> FALSE, artifact_type |-> "", phase_name |-> "", content_markdown |-> <<>>]

\* generate_with_context followed by to_dict(): [ok, artifact]; ok is FALSE
\* when GeneratedArtifact(...) raises ValueError
GenerateWithContext(phase_name, scenario, context) ==
  LET d == DispatchPhase(phase_name, scenario, context)
  IN IF ArtifactIsValid(d.artifact_type, phase_name)
     THEN [ok |-> TRUE,
           artifact |-> [present |-> TRUE, artifact_type |-> d.artifact_type,
                         phase_name |-> phase_name, content_markdown |-> d.markdown]]
     ELSE [ok |-> FALSE, artifact |-> NoArtifact]

(***************************************************************************)
(* Session store: models/session.py, services/session_service.py           *)
(*                                                                         *)
(* A world is the process state the handlers share:                        *)
(*   session  Optional[DemoSession], <<>> for None and <<s>> for s         *)
(*   custom   ScenarioService._custom_scenarios, id -> scenario            *)
(*   created  how many DemoSession objects were built; the next uuid4      *)
(***************************************************************************)
\* Python's None for an optional str
None == "<None>"

\* ActionLogEntry(action_type, action_detail); entry_id and timestamp left out
LogEntry(action_type, action_detail) ==
  [action_type |-> action_type, action_detail |-> action_detail]

\* DemoSession(): the dataclass defaults, with a fresh session_id
DemoSession(session_id) ==
  [ session_id |-> session_id,
    current_scenario_id |-> None,
    current_phase_name |-> None,
    action_log |-> <<>>,
    phase_inputs |-> <<>> ]

\* log_action keeping only the newest entry
LogActionReplace(session, action_type, action_detail) ==
  [session EXCEPT !.action_log = <<LogEntry(action_type, action_detail)>>]

\* DemoSession.log_action
LogAction(session, action_type, action_detail) ==
  [session EXCEPT !.action_log = Append(@, LogEntry(action_type, action_detail))]

\* SessionService.get_current_session: the world after the call; the session
\* is world.session[1] from then on
GetCurrentSession(world) ==
  IF world.session = <<>>
  THEN [world EXCEPT !.session = <<DemoSession(world.created + 1)>>,
                     !.created = @ + 1]
  ELSE world

\* SessionService.reset_session
ResetSession(world) ==
  [world EXCEPT !.session = <<DemoSession(world.created + 1)>>, !.created = @ + 1]

\* update_session starting the phase-input map afresh
UpdateSessionFresh(session, scenario_id, phase_name) ==
  LET s1 == LogAction([session EXCEPT !.current_scenario_id = scenario_id,
                                      !.phase_inputs = <<>>],
                      "scenario_select", <<"Selected scenario: ", scenario_id>>)
  IN LogAction([s1 EXCEPT !.current_phase_name = phase_name],
               "phase_advance", <<"Moved to phase: ", phase_name>>)

\* SessionService.update_session(scenario_id, phase_name), both given
UpdateSession(session, scenario_id, phase_name) ==
  LET s1 == LogAction([session EXCEPT !.current_scenario_id = scenario_id],
                      "scenario_select", <<"Selected scenario: ", scenario_id>>)
  IN LogAction([s1 EXCEPT !.current_phase_name = phase_name],
               "phase_advance", <<"Moved to phase: ", phase_name>>)

\* get_scenario_by_id answering an unknown id with a default scenario
GetScenarioByIdDefault(world, scenario_id) ==
  IF scenario_id \in DOMAIN world.custom THEN <<world.custom[scenario_id]>>
  ELSE IF scenario_id \in DOMAIN FixedScenarios THEN <<FixedScenarios[scenario_id]>>
  ELSE <<FixedScenarios["user-authentication"]>>

\* ScenarioService.get_scenario_by_id: <<>> for None, <<scenario>> otherwise
GetScenarioById(world, scenario_id) ==
  IF scenario_id \in DOMAIN world.custom THEN <<world.custom[scenario_id]>>
  ELSE IF scenario_id \notin DOMAIN ScenarioFiles THEN <<>>
  ELSE IF PostInit(ScenarioFiles[scenario_id]) THEN <<ScenarioFiles[scenario_id]>>
  ELSE <<>>  \* except Exception: return None

\* phase_names.index(name): 1-based position, 0 when list.index raises
IndexOfPhase(phase_names, name) == FindTok(phase_names, name, 1)

\* d[key] = value on a dict
DictPut(d, key, value) ==
  [k \in (DOMAIN d) \cup {key} |-> IF k = key THEN value ELSE d[k]]

\* one entry of session.phase_inputs; a key the dict does not hold is
\* submitted_at = FALSE / artifact = NoArtifact / artifact_markdown = ""
PhaseEntry(input, clarifications, submitted_at, artifact) ==
  [ input |-> input, clarifications |-> clarifications, submitted_at |-> submitted_at,
    artifact |-> artifact, artifact_markdown |-> artifact.content_markdown ]

(***************************************************************************)
(* Responses.  Every handler answers with one record of this shape.        *)
(***************************************************************************)
NoResponse ==
  [ op |-> "none", status |-> 0, scenario_id |-> None, phase |-> None,
    phase_index |-> -1, current_phase |-> None, total_phases |-> -1,
    session_id |-> 0, artifact |-> NoArtifact, constitution_check |-> None,
    previous_phase_artifact |-> NoArtifact, phase_inputs |-> <<>>, error |-> None,
    removed |-> 0, errors |-> <<>>, scenario_ids |-> {} ]

ErrorResponse(op, scenario_id, phase, status, error) ==
  [NoResponse EXCEPT !.op = op, !.scenario_id = scenario_id, !.phase = phase,
                     !.status = status, !.error = error]

(***************************************************************************)
(* Workflow engine: services/workflow_service.py, api/workflow.py          *)
(* Every handler is an operator from the world and the request to          *)
(* [world, response].                                                      *)
(***************************************************************************)
\* the phase initialize_workflow stores in the session
InitialPhaseName(scenario) == "specify"

\* GET /workflow/<id>: get_workflow -> WorkflowService.initialize_workflow
InitializeWorkflow(world, scenario_id) ==
  LET found == GetScenarioById(world, scenario_id)
  IN IF found = <<>>
     THEN [world |-> world,
           response |-> ErrorResponse("initialize", scenario_id, None, 404, "Scenario not found")]
     ELSE
       LET scenario == found[1]
           w1 == GetCurrentSession(world)
           session == UpdateSession(w1.session[1], scenario_id, InitialPhaseName(scenario))
           first_phase == IF scenario.workflow_phases # <<>>
                            THEN scenario.workflow_phases[1] ELSE None
       IN [world |-> [w1 EXCEPT !.session = <<session>>],
           response |-> [NoResponse EXCEPT !.op = "initialize", !.status = 200,
                           !.scenario_id = scenario_id,
                           !.current_phase = first_phase,
                           !.phase_index = 0,
                           !.total_phases = Len(scenario.workflow_phases),
                           !.session_id = session.session_id]]

\* advance_phase with the lookup of the current phase left out
CurrentIndexZero(phase_names, current_phase) == 0

\* phase_names.index(current_phase) with no fallback for a miss
CurrentIndexUnguarded(phase_names, current_phase) ==
  IndexOfPhase(phase_names, current_phase) - 1

\* try: phase_names.index(current_phase) except ValueError: 0   (0-based)
CurrentIndex(phase_names, current_phase) ==
  IF IndexOfPhase(phase_names, current_phase) = 0 THEN 0
  ELSE IndexOfPhase(phase_names, current_phase) - 1

\* the final-phase test one too lax
AtFinalPhaseLax(current_index, total) == current_index >= total

\* if current_index >= len(scenario.workflow_phases) - 1: raise ValueError
AtFinalPhase(current_index, total) == current_index >= total - 1

\* _generate_artifact_from_input: the artifact dict, NoArtifact for None
GenerateArtifactFromInput(scenario, phase_name, phase_inputs) ==
  LET user_input == InputOf(phase_inputs, phase_name)
      clarifications == ClarificationsOf(phase_inputs, phase_name)
      context == BuildArtifactContext(scenario, phase_name, user_input,
                                      clarifications, phase_inputs)
      g == GenerateWithContext(phase_name, scenario, context)
  IN IF g.ok THEN g.artifact ELSE NoArtifact

\* the methods class ConstitutionService defines
ConstitutionServiceMethods ==
  {"load_constitution", "get_rules", "get_rule_by_id", "get_rules_by_category",
   "get_principles", "evaluate_checks", "get_check_summary"}

\* the outcome of a call that raised
Raised == "<raised>"

\* constitution_service.run_check(artifact_id): its result, Raised when the
\* call raises (no such method, or the checker fails)
RunCheck(scenario_id, phase_name, checker_ok) ==
  IF "run_check" \in ConstitutionServiceMethods /\ checker_ok
  THEN "check_result"
  ELSE Raised

\* a try block whose except clause is missing: the exception goes on
ExceptNothing(outcome) == outcome

\* try: ... except Exception: return None
ExceptException(outcome) == IF outcome = Raised THEN None ELSE outcome

\* _run_constitution_check_for_phase: the result of
\* constitution_service.run_check, None when the call raises (the except
\* clause swallows every Exception, the AttributeError of a method the
\* service does not define included); checker_ok is whether the constitution
\* file could be loaded
RunConstitutionCheckForPhase(scenario_id, phase_name, checker_ok) ==
  ExceptException(RunCheck(scenario_id, phase_name, checker_ok))

\* POST /workflow/<id>/step: advance_workflow -> WorkflowService.advance_phase
AdvancePhase(world, scenario_id, checker_ok) ==
  LET found == GetScenarioById(world, scenario_id)
  IN IF found = <<>>
     THEN [world |-> world,
           response |-> ErrorResponse("advance", scenario_id, None, 400, "Scenario not found")]
     ELSE
       LET scenario == found[1]
           w1 == GetCurrentSession(world)
           session == w1.session[1]
           current_phase == IF session.current_phase_name # None
                              THEN session.current_phase_name ELSE "specify"
           phase_names == scenario.workflow_phases
           current_index == CurrentIndex(phase_names, current_phase)
           next_index == current_index + 1
       IN IF AtFinalPhase(current_index, Len(phase_names))
          THEN [world |-> w1,
                response |-> ErrorResponse("advance", scenario_id, None, 400,
                                           "Already at final phase")]
          ELSE IF next_index + 1 > Len(phase_names)
          THEN \* scenario.workflow_phases[next_index] raises IndexError
               [world |-> w1,
                response |-> ErrorResponse("advance", scenario_id, None, 500, "IndexError")]
          ELSE
            LET next_phase_name == phase_names[next_index + 1]
                phase_inputs == session.phase_inputs
                previous_artifact ==
                  IF current_phase \in DOMAIN phase_inputs
                  THEN GenerateArtifactFromInput(scenario, current_phase, phase_inputs)
                  ELSE NoArtifact
                s1 == UpdateSession(session, scenario_id, next_phase_name)
                s2 == LogAction(s1, "phase_advance", <<"Advanced to ", next_phase_name>>)
                constitution_check ==
                  IF current_phase = "plan"
                  THEN RunConstitutionCheckForPhase(scenario_id, current_phase, checker_ok)
                  ELSE None
            IN IF constitution_check = Raised
               THEN \* an exception out of advance_phase: the handler re-raises
                    \* it, the session stays as update_session left it
                    [world |-> [w1 EXCEPT !.session = <<s2>>],
                     response |-> ErrorResponse("advance", scenario_id, None, 500, "Exception")]
               ELSE
               [world |-> [w1 EXCEPT !.session = <<s2>>],
                response |-> [NoResponse EXCEPT !.op = "advance", !.status = 200,
                                !.scenario_id = scenario_id,
                                !.current_phase = next_phase_name,
                                !.phase_index = next_index,
                                !.total_phases = Len(phase_names),
                                !.session_id = session.session_id,
                                !.constitution_check = constitution_check,
                                !.previous_phase_artifact = previous_artifact]]

\* data.get("phase") of a body that holds no "phase" (None, or "")
NoPhase == ""

\* jump_to_phase recording the scenario's first phase instead of the target
JumpTargetFirst(phase_names, target_phase) == phase_names[1]

\* the phase name jump_to_phase hands to update_session
JumpTarget(phase_names, target_phase) == target_phase

\* POST /workflow/<id>/jump: jump_workflow -> WorkflowService.jump_to_phase;
\* target_phase = "" stands for a body without "phase"
JumpToPhase(world, scenario_id, target_phase) ==
  IF target_phase = NoPhase
  THEN [world |-> world,
        response |-> ErrorResponse("jump", scenario_id, target_phase, 400,
                                   "Missing 'phase' in request body")]
  ELSE
    LET found == GetScenarioById(world, scenario_id)
    IN IF found = <<>>
       THEN [world |-> world,
             response |-> ErrorResponse("jump", scenario_id, target_phase, 400,
                                        "Scenario not found")]
       ELSE
         LET scenario == found[1]
             phase_names == scenario.workflow_phases
             position == IndexOfPhase(phase_names, target_phase)
         IN IF position = 0
            THEN [world |-> world,
                  response |-> ErrorResponse("jump", scenario_id, target_phase, 400,
                                             "Phase not found")]
            ELSE
              LET w1 == GetCurrentSession(world)
                  s1 == UpdateSession(w1.session[1], scenario_id,
                                      JumpTarget(phase_names, target_phase))
                  s2 == LogAction(s1, "phase_jump", <<"Jumped to ", target_phase>>)
              IN [world |-> [w1 EXCEPT !.session = <<s2>>],
                  response |-> [NoResponse EXCEPT !.op = "jump", !.status = 200,
                                  !.scenario_id = scenario_id,
                                  !.phase = target_phase,
                                  !.current_phase = phase_names[position],
                                  !.phase_index = position - 1,
                                  !.total_phases = Len(phase_names),
                                  !.session_id = s2.session_id]]

\* generate_artifact_with_input: [ok, artifact]; ok is FALSE when ValueError
\* is raised (unknown scenario, or GeneratedArtifact refusing the phase)
GenerateArtifactWithInput(world, scenario_id, phase_name, user_input, clarifications, all_phase_inputs) ==
  LET found == GetScenarioById(world, scenario_id)
  IN IF found = <<>> THEN [ok |-> FALSE, artifact |-> NoArtifact]
     ELSE GenerateWithContext(phase_name, found[1],
            BuildArtifactContext(found[1], phase_name, user_input,
                                 clarifications, all_phase_inputs))

\* generate_artifact_with_context: the phase's own stored input is the input
GenerateArtifactWithContext(world, scenario_id, phase_name, all_phase_inputs) ==
  GenerateArtifactWithInput(world, scenario_id, phase_name,
                            InputOf(all_phase_inputs, phase_name),
                            ClarificationsOf(all_phase_inputs, phase_name),
                            all_phase_inputs)

\* submit_phase_input that keeps the text already stored for the phase
StoredInputKeepOld(phase_inputs, phase_name, user_input) ==
  IF phase_name \in DOMAIN phase_inputs THEN phase_inputs[phase_name].input ELSE user_input

\* the "input" value submit_phase_input stores: the request's text
StoredInput(phase_inputs, phase_name, user_input) == user_input

\* submit_phase_input / generate_artifact_for_phase persisting the markdown
\* as the phase's input as well
PersistMarkdownAsInput(entry, artifact) ==
  [entry EXCEPT !.artifact = artifact, !.artifact_markdown = artifact.content_markdown,
                !.input = artifact.content_markdown]

\* submit_phase_input persisting the markdown without the artifact
PersistMarkdownOnly(entry, artifact) ==
  [entry EXCEPT !.artifact_markdown = artifact.content_markdown]

\* entry["artifact"] = artifact; entry["artifact_markdown"] = its markdown
PersistArtifact(entry, artifact) ==
  [entry EXCEPT !.artifact = artifact, !.artifact_markdown = artifact.content_markdown]

\* POST /workflow/<id>/input: submit_phase_input
SubmitPhaseInput(world, scenario_id, phase_name, user_input, clarifications) ==
  IF phase_name = NoPhase
  THEN [world |-> world,
        response |-> ErrorResponse("submit", scenario_id, phase_name, 400,
                                   "Missing 'phase' in request body")]
  ELSE
    LET w1 == GetCurrentSession(world)
        session == w1.session[1]
        stored == DictPut(session.phase_inputs, phase_name,
                    PhaseEntry(StoredInput(session.phase_inputs, phase_name, user_input),
                               clarifications, TRUE, NoArtifact))
        s1 == LogAction([session EXCEPT !.phase_inputs = stored],
                        "phase_input", <<"User input submitted for ", phase_name>>)
        g == GenerateArtifactWithInput(w1, scenario_id, phase_name, user_input,
                                       clarifications, s1.phase_inputs)
    IN IF ~g.ok
       THEN [world |-> [w1 EXCEPT !.session = <<s1>>],
             response |-> ErrorResponse("submit", scenario_id, phase_name, 400, "ValueError")]
       ELSE
         LET s2 == [s1 EXCEPT !.phase_inputs[phase_name] = PersistArtifact(@, g.artifact)]
         IN [world |-> [w1 EXCEPT !.session = <<s2>>],
             response |-> [NoResponse EXCEPT !.op = "submit", !.status = 200,
                             !.scenario_id = scenario_id, !.phase = phase_name,
                             !.artifact = g.artifact,
                             !.session_id = s2.session_id]]

\* generate_artifact_for_phase writing a new entry over the stored one
SetDefaultEntryFresh(phase_inputs, phase_name) ==
  PhaseEntry(<<>>, <<>>, FALSE, NoArtifact)

\* phase_inputs.setdefault(phase_name, {}) with its "clarifications" and
\* "input" defaults: the stored entry, or an entry of empty input
SetDefaultEntry(phase_inputs, phase_name) ==
  IF phase_name \in DOMAIN phase_inputs
  THEN phase_inputs[phase_name]
  ELSE PhaseEntry(<<>>, <<>>, FALSE, NoArtifact)

\* GET /workflow/<id>/artifact/<phase>: generate_artifact_for_phase
GenerateArtifactForPhase(world, scenario_id, phase_name) ==
  LET w1 == GetCurrentSession(world)
      session == w1.session[1]
      phase_inputs == session.phase_inputs
      g == GenerateArtifactWithContext(w1, scenario_id, phase_name, phase_inputs)
  IN IF ~g.ok
     THEN [world |-> w1,
           response |-> ErrorResponse("generate", scenario_id, phase_name, 400, "ValueError")]
     ELSE
       LET old == SetDefaultEntry(phase_inputs, phase_name)
           s1 == [session EXCEPT !.phase_inputs =
                    DictPut(phase_inputs, phase_name, PersistArtifact(old, g.artifact))]
       IN [world |-> [w1 EXCEPT !.session = <<s1>>],
           response |-> [NoResponse EXCEPT !.op = "generate", !.status = 200,
                           !.scenario_id = scenario_id, !.phase = phase_name,
                           !.artifact = g.artifact,
                           !.session_id = s1.session_id]]

\* GET /workflow/<id>/inputs: get_phase_inputs
GetPhaseInputs(world, scenario_id) ==
  LET w1 == GetCurrentSession(world)
  IN [world |-> w1,
      response |-> [NoResponse EXCEPT !.op = "inputs", !.status = 200,
                      !.scenario_id = scenario_id,
                      !.phase_inputs = w1.session[1].phase_inputs,
                      !.session_id = w1.session[1].session_id]]

\* a reset that leaves the custom scenarios in place
ClearCustomScenariosKeep(custom) == custom

\* ScenarioService.clear_custom_scenarios: the dict after .clear()
ClearCustomScenarios(custom) == <<>>

\* POST /workflow/reset: reset_workflow; removed is what
\* clear_custom_scenarios returns
ResetWorkflow(world) ==
  LET w1 == ResetSession([world EXCEPT !.custom = ClearCustomScenarios(@)])
      s1 == LogAction(w1.session[1], "reset", <<"Demo reset to initial state">>)
  IN [world |-> [w1 EXCEPT !.session = <<s1>>],
      response |-> [NoResponse EXCEPT !.op = "reset", !.status = 200,
                      !.removed = Cardinality(DOMAIN world.custom)]]

\* the five phase descriptors create_custom_scenario gives every custom scenario
DefaultPhases == <<"specify", "clarify", "plan", "tasks", "implement">>

\* the messages validate_custom_scenario gives for one text field
FieldErrors(text, name, required, at_least, at_most) ==
  IF text = "" THEN <<required>>
  ELSE IF Len(text) < at_least
  THEN <<name \o " must be at least " \o ToString(at_least) \o " characters">>
  ELSE IF Len(text) > at_most
  THEN <<name \o " must not exceed " \o ToString(at_most) \o " characters">>
  ELSE <<>>

\* ScenarioService.validate_custom_scenario: validation["errors"]
ValidationErrors(data) ==
  FieldErrors(Strip(data.title), "Title", "Title is required", 5, 100)
    \o FieldErrors(Strip(data.description), "Description", "Description is required", 20, 500)
    \o FieldErrors(Strip(data.domain), "Domain", "Domain/Industry is required", 3, 50)
    \o (IF Len(Strip(data.feature_description)) > 2000
        THEN <<"Feature description must not exceed 2000 characters">> ELSE <<>>)
    \o (IF Len(data.tech_stack) > 10
        THEN <<"Tech stack must not exceed 10 items">> ELSE <<>>)

\* a validation that accepts every request
ValidateAnything(data) == TRUE

\* ScenarioService.validate_custom_scenario: validation["valid"]
ValidateCustomScenario(data) == ValidationErrors(data) = <<>>

\* base_id = re.sub(r'[^a-z0-9]+', '-', title.lower()).strip('-')
BaseId(title) ==
  RStripChars(LStripChars(SubNonSlugRuns(title, 1, Len(title)), {"-"}), {"-"})

\* scenario_id = f"custom-{base_id}-{uuid.uuid4().hex[:6]}"
CustomScenarioId(title, hex) == "custom-" \o BaseId(title) \o "-" \o hex

\* self._custom_scenarios[scenario_id] = scenario
StoreCustomScenario(custom, scenario_id, scenario) == DictPut(custom, scenario_id, scenario)

\* POST /scenarios/custom: create_custom_scenario; hex is the uuid4 draw
CreateCustomScenario(world, data, hex) ==
  IF ~ValidateCustomScenario(data)
  THEN [world |-> world,
        response |-> [ErrorResponse("create_custom", None, None, 400, "Validation failed")
                        EXCEPT !.errors = ValidationErrors(data)]]
  ELSE
    LET title == Strip(data.title)
        scenario_id == CustomScenarioId(title, hex)
        scenario == [ id |-> scenario_id,
                      title |-> title,
                      description |-> Strip(data.description),
                      domain |-> Strip(data.domain),
                      is_custom |-> TRUE,
                      workflow_phases |-> DefaultPhases,
                      initial_prompt |-> <<>>,
                      tech_stack |-> data.tech_stack,
                      demo_clarifications |-> <<>> ]
    IN IF ~PostInit(scenario)
       THEN \* ValueError out of DemoScenario(...) -> BadRequest
            [world |-> world,
             response |-> ErrorResponse("create_custom", None, None, 400, "ValueError")]
       ELSE [world |-> [world EXCEPT !.custom = StoreCustomScenario(@, scenario_id, scenario)],
             response |-> [NoResponse EXCEPT !.op = "create_custom", !.status = 201,
                             !.scenario_id = scenario_id]]

\* a delete that empties the custom set
DeleteKeyAll(custom, scenario_id) == <<>>

\* del self._custom_scenarios[scenario_id]
DeleteKey(custom, scenario_id) ==
  [k \in DOMAIN custom \ {scenario_id} |-> custom[k]]

\* DELETE /scenarios/custom/<id>: delete_custom_scenario
DeleteCustomScenario(world, scenario_id) ==
  IF scenario_id \in DOMAIN world.custom
  THEN [world |-> [world EXCEPT !.custom = DeleteKey(@, scenario_id)],
        response |-> [NoResponse EXCEPT !.op = "delete_custom", !.status = 200,
                        !.scenario_id = scenario_id]]
  ELSE [world |-> world,
        response |-> ErrorResponse("delete_custom", scenario_id, None, 404,
                                   "Custom scenario not found")]

\* GET /scenarios: the ids of list_scenarios() + list_custom_scenarios(); a
\* definition DemoScenario refuses is logged and skipped
ListScenarioIds(world) ==
  {x \in DOMAIN ScenarioFiles : PostInit(ScenarioFiles[x])} \cup (DOMAIN world.custom)

\* GET /scenarios: list_scenarios
ListScenarios(world) ==
  [world |-> world,
   response |-> [NoResponse EXCEPT !.op = "list", !.status = 200,
                   !.scenario_ids = ListScenarioIds(world)]]

(***************************************************************************)
(* The state machine                                                       *)
(***************************************************************************)
VARIABLES
  current_session,    \* session_service._current_session: <<>> or <<DemoSession>>
  custom_scenarios,   \* ScenarioService._custom_scenarios
  sessions_created,   \* number of DemoSession objects built so far
  response,           \* the response of the last request
  threads,            \* the locals of each request thread of the server
  orphans             \* DemoSession objects the global does not refer to

vars == <<current_session, custom_scenarios, sessions_created, response, threads, orphans>>

World ==
  [session |-> current_session, custom |-> custom_scenarios, created |-> sessions_created]

\* the state after a handler returned r = [world, response]
Apply(r) ==
  /\ current_session' = r.world.session
  /\ custom_scenarios' = r.world.custom
  /\ sessions_created' = r.world.created
  /\ response' = r.response
  /\ UNCHANGED <<threads, orphans>>

\* bounds of the model: the length of the action log, the number of
\* phase_input entries in it, and the number of sessions ever built
MaxLog == 7
MaxInputs == 1
MaxSessions == 2
ChainMaxInputs == 1
InputMaxInputs == 2

\* the requests the invariants range over
ScenarioIds == {"user-authentication", "ops-runbook", "no-such-scenario"}
PhaseArgs == ValidPhases \cup {"deploy", NoPhase}
PlainText == <<"Users sign in by email">>
RuleText == <<"Intro", NL, HR, NL, "Details">>
Texts == {<<>>, PlainText, RuleText}
CleanTexts == {<<>>, PlainText}
LiveClarifications == << [question |-> "Is MFA needed?", answer |-> <<"Yes">>] >>
ClarificationLists == {<<>>, LiveClarifications}

\* the input and artifact requests the behaviours are built from:
\* <<scenario_id, phase, input, clarifications>> and <<scenario_id, phase>>
SubmitRequests ==
  { <<"user-authentication", "plan", PlainText, LiveClarifications>>,
    <<"ops-runbook", "specify", <<>>, <<>> >> }
GenerateRequests ==
  { <<"user-authentication", "plan">>, <<"no-such-scenario", "plan">> }
InputSubmitRequests ==
  { <<"user-authentication", "specify", RuleText, <<>> >>,
    <<"user-authentication", "specify", <<>>, <<>> >>,
    <<"user-authentication", "plan", PlainText, LiveClarifications>>,
    <<"no-such-scenario", "tasks", PlainText, <<>> >>,
    <<"ops-runbook", "deploy", PlainText, <<>> >>,
    <<"user-authentication", NoPhase, PlainText, <<>> >> }
InputGenerateRequests ==
  { <<"user-authentication", "plan">>, <<"user-authentication", "tasks">>,
    <<"no-such-scenario", "plan">>, <<"ops-runbook", "deploy">> }
AdvanceRequests ==
  { <<"user-authentication", TRUE>>, <<"user-authentication", FALSE>>,
    <<"ops-runbook", TRUE>>, <<"no-such-scenario", TRUE>> }
JumpRequests ==
  { <<"user-authentication", "implement">>, <<"user-authentication", "plan">>,
    <<"user-authentication", "specify">>, <<"ops-runbook", "specify">>,
    <<"user-authentication", "deploy">>, <<"user-authentication", NoPhase>>,
    <<"no-such-scenario", "plan">> }
ChainSubmitRequests ==
  { <<"user-authentication", "specify", PlainText, <<>> >>,
    <<"user-authentication", "clarify", <<>>, LiveClarifications>>,
    <<"no-such-scenario", "plan", PlainText, <<>> >>,
    <<"user-authentication", "plan", PlainText, LiveClarifications>>,
    <<"user-authentication", "tasks", PlainText, <<>> >>,
    <<"ops-runbook", "implement", <<>>, <<>> >> }
ChainGenerateRequests ==
  { <<"user-authentication", "specify">>, <<"user-authentication", "clarify">>,
    <<"user-authentication", "plan">>, <<"user-authentication", "tasks">>,
    <<"user-authentication", "implement">>, <<"ops-runbook", "tasks">> }

\* the request threads of the development server (app.run serves each
\* request in a thread of its own)
Threads == {"t1", "t2"}

\* the locals of a thread that serves no request
IdleThread ==
  [ op |-> "none", pc |-> "idle", ret |-> "idle",
    scenario_id |-> None, phase_name |-> None, user_input |-> <<>>,
    session |-> 0, inner |-> 0, created |-> 0, result |-> 0,
    current_phase |-> None, current_index |-> -1, next_phase_name |-> None,
    artifact |-> NoArtifact, status |-> 0, phase_index |-> -1 ]

\* module state right after import: no session, no custom scenario
Init ==
  /\ current_session = <<>>
  /\ custom_scenarios = <<>>
  /\ sessions_created = 0
  /\ response = NoResponse
  /\ threads = [t \in Threads |-> IdleThread]
  /\ orphans = <<>>

ActionLog == IF current_session = <<>> THEN <<>> ELSE current_session[1].action_log

InputsLogged ==
  Cardinality({i \in 1..Len(ActionLog) : ActionLog[i].action_type = "phase_input"})

Initialize(scenario_id) == Apply(InitializeWorkflow(World, scenario_id))

Advance(scenario_id, checker_ok) == Apply(AdvancePhase(World, scenario_id, checker_ok))

Jump(scenario_id, target_phase) == Apply(JumpToPhase(World, scenario_id, target_phase))

SubmitInput(scenario_id, phase_name, user_input, clarifications) ==
  Apply(SubmitPhaseInput(World, scenario_id, phase_name, user_input, clarifications))

GenerateForPhase(scenario_id, phase_name) ==
  Apply(GenerateArtifactForPhase(World, scenario_id, phase_name))

ReadPhaseInputs(scenario_id) == Apply(GetPhaseInputs(World, scenario_id))

Reset == Apply(ResetWorkflow(World))

Next ==
  \/ /\ Len(ActionLog) + 3 <= MaxLog
     /\ \E sid \in ScenarioIds : Initialize(sid)
  \/ /\ Len(ActionLog) + 3 <= MaxLog
     /\ \E a \in AdvanceRequests : Advance(a[1], a[2])
  \/ /\ Len(ActionLog) + 3 <= MaxLog
     /\ \E j \in JumpRequests : Jump(j[1], j[2])
  \/ /\ Len(ActionLog) + 1 <= MaxLog
     /\ InputsLogged < MaxInputs
     /\ \E r \in SubmitRequests : SubmitInput(r[1], r[2], r[3], r[4])
  \/ \E g \in GenerateRequests : GenerateForPhase(g[1], g[2])
  \/ ReadPhaseInputs("user-authentication")
  \/ /\ sessions_created < MaxSessions
     /\ Reset

Spec == Init /\ [][Next]_vars

\* the input handlers, with texts that hold a rule line, unknown scenarios and
\* unknown phases
NextInput ==
  \/ /\ InputsLogged < InputMaxInputs
     /\ \E r \in InputSubmitRequests : SubmitInput(r[1], r[2], r[3], r[4])
  \/ \E g \in InputGenerateRequests : GenerateForPhase(g[1], g[2])
  \/ ReadPhaseInputs("user-authentication")

SpecInput == Init /\ [][NextInput]_vars

\* only SubmitInput and GenerateForPhase, with texts that hold neither the
\* marker nor a rule line
NextChain ==
  \/ /\ InputsLogged < ChainMaxInputs
     /\ \E r \in ChainSubmitRequests : SubmitInput(r[1], r[2], r[3], r[4])
  \/ \E g \in ChainGenerateRequests : GenerateForPhase(g[1], g[2])

SpecChain == Init /\ [][NextChain]_vars

\* custom scenarios and resets
HexIds == {"a1b2c3", "d4e5f6"}
TodoData ==
  [ title |-> "Todo App", description |-> "A simple list of things to do",
    domain |-> "productivity", feature_description |-> "", tech_stack |-> <<"React">> ]
ShortTitleData == [TodoData EXCEPT !.title = "Hi"]
CustomRequests == {TodoData, ShortTitleData}
CustomIds == {CustomScenarioId(TodoData.title, hex) : hex \in HexIds}

CreateCustom(data, hex) == Apply(CreateCustomScenario(World, data, hex))

NextCustom ==
  \/ \E data \in CustomRequests, hex \in HexIds : CreateCustom(data, hex)
  \/ /\ Len(ActionLog) + 3 <= MaxLog
     /\ \E sid \in CustomIds \cup {"user-authentication"} : Initialize(sid)
  \/ /\ InputsLogged < MaxInputs
     /\ \E sid \in CustomIds : SubmitInput(sid, "specify", PlainText, <<>>)
  \/ /\ sessions_created < MaxSessions
     /\ Reset

SpecCustom == Init /\ [][NextCustom]_vars

\* the catalog of custom scenarios: creations, valid or not, and deletions
\* another title with the slug of "Todo App"
TodoDashData ==
  [TodoData EXCEPT !.title = "  TODO-app!", !.description = "Another list of things to do"]
\* both texts too short once trimmed
ShortBothData == [TodoData EXCEPT !.title = "  Hi   ", !.description = "   Too short          "]
CatalogRequests == {TodoData, TodoDashData, ShortTitleData, ShortBothData}
DeleteIds == CustomIds \cup {"user-authentication", "custom-todo-app-000000"}

DeleteCustom(scenario_id) == Apply(DeleteCustomScenario(World, scenario_id))

ListAll == Apply(ListScenarios(World))

NextCatalog ==
  \/ \E data \in CatalogRequests, hex \in HexIds : CreateCustom(data, hex)
  \/ \E sid \in DeleteIds : DeleteCustom(sid)
  \/ /\ ActionLog = <<>>
     /\ \E sid \in CustomIds \cup DOMAIN ScenarioFiles : Initialize(sid)
  \/ ListAll

SpecCatalog == Init /\ [][NextCatalog]_vars

\* the service called with a phase-input map of the caller's:
\* WorkflowService.generate_artifact_with_context(scenario_id, phase_name,
\* all_phase_inputs) reads the catalog and nothing of the session
TrimmedTexts ==
  { <<"# Title">>, <<"# Plan", NL, NL, "Body">>, <<INDENT, "# Title">>,
    <<"Intro", NL, HR, NL, "Details">> }
TextsAfter ==
  { <<"Body">>, <<"Body", NL>>, <<"Body", NL, HR, NL, "Footer">>,
    <<"Body", NL, MARK, NL, HR, NL, "Tail">> }
Blanks == { <<>>, <<NL>>, <<NL, NL>>, <<NL, INDENT>> }
OpenTails == { <<>>, <<NL, "> quoted">>, <<NL, INDENT, "> quoted", NL>> }
QuotedBodies == { <<>>, <<NL, "> quoted">> }

\* markdown with a marker and no rule line after it, with a block at its
\* very start, with a block inside, and without a marker
StripInputs ==
  {text \o <<NL, NL, MARK, NL, "> quoted">> : text \in TrimmedTexts \cup {<<>>}}
  \cup {<<MARK, NL, "> quoted", NL, HR, NL, NL>> \o text : text \in TextsAfter \cup {<<>>}}
  \cup {before \o <<NL, NL, MARK, NL, "> quoted", NL, HR, NL, NL>> \o after :
          before \in TrimmedTexts, after \in TextsAfter}
  \cup TrimmedTexts

\* {phase: {"artifact_markdown": markdown}}
MarkdownOnly(phase, markdown) ==
  phase :> [PhaseEntry(<<>>, <<>>, FALSE, NoArtifact) EXCEPT !.artifact_markdown = markdown]

ContextCalls ==
  {"user-authentication", "ops-runbook"}
    \X {<<"tasks", "plan">>, <<"implement", "plan">>, <<"implement", "tasks">>}

\* generate_artifact_with_context called directly; the session is not read
GenerateWithPhaseInputs(scenario_id, phase_name, all_phase_inputs) ==
  LET g == GenerateArtifactWithContext(World, scenario_id, phase_name, all_phase_inputs)
  IN Apply([world |-> World,
            response |->
              IF g.ok
              THEN [NoResponse EXCEPT !.op = "generate_with_context", !.status = 200,
                      !.scenario_id = scenario_id, !.phase = phase_name,
                      !.artifact = g.artifact]
              ELSE ErrorResponse("generate_with_context", scenario_id, phase_name,
                                 400, "ValueError")])

NextStrip ==
  \E c \in ContextCalls, markdown \in StripInputs :
    GenerateWithPhaseInputs(c[1], c[2][1], MarkdownOnly(c[2][2], markdown))

SpecStrip == Init /\ [][NextStrip]_vars

\* the walk from a specify text to the plan artifact; one of the texts is the
\* scenario's own initial prompt
PromptText == FixedScenarios["user-authentication"].initial_prompt
FlowTexts == {PlainText, RuleText, PromptText}
FlowScenarioIds == {"user-authentication", "ops-runbook"}

NextFlow ==
  \/ /\ Len(ActionLog) + 3 <= MaxLog
     /\ \E sid \in FlowScenarioIds : Initialize(sid)
  \/ /\ InputsLogged < MaxInputs
     /\ \E sid \in FlowScenarioIds, text \in FlowTexts : SubmitInput(sid, "specify", text, <<>>)
  \/ /\ Len(ActionLog) + 3 <= MaxLog
     /\ \E sid \in FlowScenarioIds : Advance(sid, TRUE)
  \/ /\ Len(ActionLog) + 3 <= MaxLog
     /\ Jump("user-authentication", "implement")
  \/ \E sid \in FlowScenarioIds : GenerateForPhase(sid, "plan")

SpecFlow == Init /\ [][NextFlow]_vars

(***************************************************************************)
(* Requests served concurrently.  The server runs every request in its own *)
(* thread and holds no lock, so the statements of two handlers interleave; *)
(* a step below is one statement (or a run of statements that touch only   *)
(* locals) of the handler a thread is in.                                  *)
(***************************************************************************)

PasskeyText == <<"Users sign in with a passkey">>

\* the requests two clients send at the same time
RaceRequests ==
  { [op |-> "submit", scenario_id |-> "user-authentication",
     phase_name |-> "specify", user_input |-> PlainText],
    [op |-> "submit", scenario_id |-> "user-authentication",
     phase_name |-> "specify", user_input |-> PasskeyText],
    [op |-> "advance", scenario_id |-> "user-authentication",
     phase_name |-> None, user_input |-> <<>>] }

\* the global _current_session refers to the DemoSession object id
HasGlobal(id) == current_session # <<>> /\ current_session[1].session_id = id

\* the DemoSession object a reference leads to
Deref(id) == IF HasGlobal(id) THEN current_session[1] ELSE orphans[id]

\* every DemoSession object of the process
AllSessions ==
  {orphans[id] : id \in DOMAIN orphans}
    \cup (IF current_session = <<>> THEN {} ELSE {current_session[1]})

Without(f, k) == [x \in DOMAIN f \ {k} |-> f[x]]

\* an attribute of the object behind a reference is written in place
WriteSession(id, session) ==
  IF HasGlobal(id)
  THEN current_session' = <<session>> /\ UNCHANGED orphans
  ELSE orphans' = [orphans EXCEPT ![id] = session] /\ UNCHANGED current_session

\* _current_session = <the object id>; the object the global referred to
\* lives on for the threads that hold it
AssignGlobal(id) ==
  IF HasGlobal(id)
  THEN UNCHANGED <<current_session, orphans>>
  ELSE /\ current_session' = <<orphans[id]>>
       /\ orphans' = IF current_session = <<>>
                     THEN Without(orphans, id)
                     ELSE (current_session[1].session_id :> current_session[1])
                            @@ Without(orphans, id)

\* thread t goes on with the locals th
SetThread(t, th) == threads' = [threads EXCEPT ![t] = th]

AllIdle == \A t \in Threads : threads[t].pc = "idle"
AllDone == \A t \in Threads : threads[t].pc = "done"

\* a request arrives and a thread starts its handler: submit_phase_input up
\* to its call of get_current_session, advance_phase at its first statement
Begin(t, req) ==
  /\ threads[t].pc = "idle"
  /\ SetThread(t, [IdleThread EXCEPT
                     !.op = req.op, !.scenario_id = req.scenario_id,
                     !.phase_name = req.phase_name, !.user_input = req.user_input,
                     !.pc = IF req.op = "submit" THEN "get_test" ELSE "a_lookup",
                     !.ret = IF req.op = "submit" THEN "s_store" ELSE "a_read"])
  /\ UNCHANGED <<current_session, custom_scenarios, sessions_created, response, orphans>>

\* get_current_session: if _current_session is None
GetTest(t) ==
  /\ threads[t].pc = "get_test"
  /\ SetThread(t, [threads[t] EXCEPT
                     !.pc = IF current_session = <<>> THEN "get_new" ELSE "get_ret"])
  /\ UNCHANGED <<current_session, custom_scenarios, sessions_created, response, orphans>>

\* create_session: session = DemoSession()
GetNew(t) ==
  /\ threads[t].pc = "get_new"
  /\ sessions_created' = sessions_created + 1
  /\ orphans' = (sessions_created + 1 :> DemoSession(sessions_created + 1)) @@ orphans
  /\ SetThread(t, [threads[t] EXCEPT !.created = sessions_created + 1, !.pc = "get_set"])
  /\ UNCHANGED <<current_session, custom_scenarios, response>>

\* create_session: _current_session = session
GetSet(t) ==
  /\ threads[t].pc = "get_set"
  /\ AssignGlobal(threads[t].created)
  /\ SetThread(t, [threads[t] EXCEPT !.pc = "get_store"])
  /\ UNCHANGED <<custom_scenarios, sessions_created, response>>

\* get_current_session: _current_session = <what create_session returned>
GetStore(t) ==
  /\ threads[t].pc = "get_store"
  /\ AssignGlobal(threads[t].created)
  /\ SetThread(t, [threads[t] EXCEPT !.pc = "get_ret"])
  /\ UNCHANGED <<custom_scenarios, sessions_created, response>>

\* get_current_session: return _current_session
GetRet(t) ==
  /\ threads[t].pc = "get_ret"
  /\ SetThread(t, [threads[t] EXCEPT !.result = current_session[1].session_id,
                                     !.pc = threads[t].ret])
  /\ UNCHANGED <<current_session, custom_scenarios, sessions_created, response, orphans>>

\* submit_phase_input: session = ...; session.phase_inputs[phase_name] = {...}
SubmitStore(t) ==
  LET th == threads[t]
      session == Deref(th.result)
      entry == PhaseEntry(StoredInput(session.phase_inputs, th.phase_name, th.user_input),
                          <<>>, TRUE, NoArtifact)
  IN /\ th.pc = "s_store"
     /\ WriteSession(th.result,
          [session EXCEPT !.phase_inputs = DictPut(@, th.phase_name, entry)])
     /\ SetThread(t, [th EXCEPT !.session = th.result, !.pc = "s_log"])
     /\ UNCHANGED <<custom_scenarios, sessions_created, response>>

\* submit_phase_input: session.log_action("phase_input", ...)
SubmitLog(t) ==
  LET th == threads[t]
  IN /\ th.pc = "s_log"
     /\ WriteSession(th.session,
          LogAction(Deref(th.session), "phase_input",
                    <<"User input submitted for ", th.phase_name>>))
     /\ SetThread(t, [th EXCEPT !.pc = "s_generate"])
     /\ UNCHANGED <<custom_scenarios, sessions_created, response>>

\* submit_phase_input: artifact = generate_artifact_with_input(the request's
\* own user_input, session.phase_inputs); a ValueError ends the request
SubmitGenerate(t) ==
  LET th == threads[t]
      g == GenerateArtifactWithInput(World, th.scenario_id, th.phase_name, th.user_input,
                                     <<>>, Deref(th.session).phase_inputs)
  IN /\ th.pc = "s_generate"
     /\ SetThread(t, IF g.ok
                     THEN [th EXCEPT !.artifact = g.artifact, !.pc = "s_persist"]
                     ELSE [th EXCEPT !.status = 400, !.pc = "done"])
     /\ UNCHANGED <<current_session, custom_scenarios, sessions_created, response, orphans>>

\* submit_phase_input: setdefault, then "artifact" and "artifact_markdown"
\* of whatever entry the phase holds now; the 200 response follows
SubmitPersist(t) ==
  LET th == threads[t]
      session == Deref(th.session)
      entry == SetDefaultEntry(session.phase_inputs, th.phase_name)
  IN /\ th.pc = "s_persist"
     /\ WriteSession(th.session,
          [session EXCEPT !.phase_inputs =
             DictPut(@, th.phase_name, PersistArtifact(entry, th.artifact))])
     /\ SetThread(t, [th EXCEPT !.status = 200, !.pc = "done"])
     /\ UNCHANGED <<custom_scenarios, sessions_created, response>>

\* advance_phase: the scenario lookup, up to the call of get_current_session
AdvanceLookup(t) ==
  LET th == threads[t]
  IN /\ th.pc = "a_lookup"
     /\ SetThread(t, IF GetScenarioById(World, th.scenario_id) = <<>>
                     THEN [th EXCEPT !.status = 400, !.pc = "done"]
                     ELSE [th EXCEPT !.pc = "get_test"])
     /\ UNCHANGED <<current_session, custom_scenarios, sessions_created, response, orphans>>

\* advance_phase: session = ...; the current phase is read and the next one
\* computed, up to the call of update_session -> get_current_session
AdvanceRead(t) ==
  LET th == threads[t]
      session == Deref(th.result)
      scenario == GetScenarioById(World, th.scenario_id)[1]
      current_phase == IF session.current_phase_name # None
                       THEN session.current_phase_name ELSE "specify"
      phase_names == scenario.workflow_phases
      current_index == CurrentIndex(phase_names, current_phase)
  IN /\ th.pc = "a_read"
     /\ SetThread(t, IF AtFinalPhase(current_index, Len(phase_names))
                     THEN [th EXCEPT !.session = th.result, !.status = 400, !.pc = "done"]
                     ELSE [th EXCEPT !.session = th.result,
                                     !.current_phase = current_phase,
                                     !.current_index = current_index,
                                     !.next_phase_name = phase_names[current_index + 2],
                                     !.pc = "get_test", !.ret = "u_scenario"])
     /\ UNCHANGED <<current_session, custom_scenarios, sessions_created, response, orphans>>

\* update_session: session = ...; current_scenario_id and its log entry
UpdateScenario(t) ==
  LET th == threads[t]
      session == Deref(th.result)
  IN /\ th.pc = "u_scenario"
     /\ WriteSession(th.result,
          LogAction([session EXCEPT !.current_scenario_id = th.scenario_id],
                    "scenario_select", <<"Selected scenario: ", th.scenario_id>>))
     /\ SetThread(t, [th EXCEPT !.inner = th.result, !.pc = "u_phase"])
     /\ UNCHANGED <<custom_scenarios, sessions_created, response>>

\* update_session: current_phase_name and its log entry
UpdatePhase(t) ==
  LET th == threads[t]
      session == Deref(th.inner)
  IN /\ th.pc = "u_phase"
     /\ WriteSession(th.inner,
          LogAction([session EXCEPT !.current_phase_name = th.next_phase_name],
                    "phase_advance", <<"Moved to phase: ", th.next_phase_name>>))
     /\ SetThread(t, [th EXCEPT !.pc = "a_log"])
     /\ UNCHANGED <<custom_scenarios, sessions_created, response>>

\* advance_phase: session.log_action("phase_advance", "Advanced to ...")
AdvanceLog(t) ==
  LET th == threads[t]
  IN /\ th.pc = "a_log"
     /\ WriteSession(th.session,
          LogAction(Deref(th.session), "phase_advance",
                    <<"Advanced to ", th.next_phase_name>>))
     /\ SetThread(t, [th EXCEPT !.pc = "a_return"])
     /\ UNCHANGED <<custom_scenarios, sessions_created, response>>

\* advance_phase: the constitution check and the returned dict, whose
\* phase_index is the next_index computed from what the thread read
AdvanceReturn(t) ==
  LET th == threads[t]
  IN /\ th.pc = "a_return"
     /\ SetThread(t, [th EXCEPT !.status = 200, !.phase_index = th.current_index + 1,
                                !.pc = "done"])
     /\ UNCHANGED <<current_session, custom_scenarios, sessions_created, response, orphans>>

\* a workflow started before the two requests arrive
RaceInitialize ==
  /\ AllIdle
  /\ current_session = <<>>
  /\ Initialize("user-authentication")

NextRace ==
  \/ RaceInitialize
  \/ \E t \in Threads, req \in RaceRequests : Begin(t, req)
  \/ \E t \in Threads : GetTest(t)
  \/ \E t \in Threads : GetNew(t)
  \/ \E t \in Threads : GetSet(t)
  \/ \E t \in Threads : GetStore(t)
  \/ \E t \in Threads : GetRet(t)
  \/ \E t \in Threads : SubmitStore(t)
  \/ \E t \in Threads : SubmitLog(t)
  \/ \E t \in Threads : SubmitGenerate(t)
  \/ \E t \in Threads : SubmitPersist(t)
  \/ \E t \in Threads : AdvanceLookup(t)
  \/ \E t \in Threads : AdvanceRead(t)
  \/ \E t \in Threads : UpdateScenario(t)
  \/ \E t \in Threads : UpdatePhase(t)
  \/ \E t \in Threads : AdvanceLog(t)
  \/ \E t \in Threads : AdvanceReturn(t)

SpecRace == Init /\ [][NextRace]_vars

(***************************************************************************)
(* Properties                                                              *)
(***************************************************************************)
\* what a claim calls "the session": current scenario, current phase, action
\* log and phase-input map; a process that built no session yet shows the
\* fields of a fresh one
SessionView(world) ==
  IF world.session = <<>>
  THEN [scenario |-> None, phase |-> None, log |-> <<>>, inputs |-> <<>>]
  ELSE [scenario |-> world.session[1].current_scenario_id,
        phase |-> world.session[1].current_phase_name,
        log |-> world.session[1].action_log,
        inputs |-> world.session[1].phase_inputs]

KnownIds == {sid \in ScenarioIds : sid \in DOMAIN FixedScenarios \/ sid \in DOMAIN custom_scenarios}
UnknownIds == ScenarioIds \ KnownIds

PhasesOf(sid) ==
  IF sid \in DOMAIN custom_scenarios THEN custom_scenarios[sid].workflow_phases
  ELSE FixedScenarios[sid].workflow_phases

\* 0-based position of the world's current phase in a phase list, -1 when
\* the session has no current phase of that list
PositionIn(world, phase_names) ==
  IF world.session = <<>> THEN -1
  ELSE IndexOfPhase(phase_names, world.session[1].current_phase_name) - 1

Min(a, b) == IF a <= b THEN a ELSE b

\* number of consecutive Advance calls the N-step property ranges over
AdvanceCalls == 5

RECURSIVE AdvanceTimes(_, _, _)
\* the world after n consecutive Advance calls for one scenario
AdvanceTimes(world, sid, n) ==
  IF n = 0 THEN world ELSE AdvanceTimes(AdvancePhase(world, sid, TRUE).world, sid, n - 1)

\* C1: from a current phase at index i of the scenario's list, N consecutive
\* Advance calls leave the current phase at index min(i+N, L); a successful
\* Advance moves the index by exactly one and reports the new index.
C1_AdvanceMonotonic ==
  \A sid \in KnownIds :
    LET phases == PhasesOf(sid)
        last == Len(phases) - 1
        i == PositionIn(World, phases)
    IN i >= 0 =>
         \A n \in 0..AdvanceCalls :
           LET w == AdvanceTimes(World, sid, n)
               r == AdvancePhase(w, sid, TRUE)
           IN /\ PositionIn(w, phases) = Min(i + n, last)
              /\ r.response.status = 200 =>
                   /\ PositionIn(r.world, phases) = PositionIn(w, phases) + 1
                   /\ r.response.phase_index = PositionIn(r.world, phases)
              /\ r.response.status # 200 => PositionIn(w, phases) = last

\* two Advance calls in a row succeeded, the second one from a later phase
C1_Witness ==
  /\ response.op = "advance" /\ response.status = 200 /\ response.phase_index = 2
  /\ Len(ActionLog) >= 6
  /\ ActionLog[Len(ActionLog) - 3].action_detail[1] = "Advanced to "
  /\ ActionLog[Len(ActionLog)].action_detail[1] = "Advanced to "

\* C2: Advance at the scenario's last phase fails with InvalidTransition (a
\* 400) and leaves scenario, phase, action log and phase-input map as they were.
C2_AdvanceAtLastRefused ==
  \A sid \in KnownIds, checker_ok \in BOOLEAN :
    LET phases == PhasesOf(sid)
        r == AdvancePhase(World, sid, checker_ok)
    IN (phases # <<>> /\ PositionIn(World, phases) = Len(phases) - 1) =>
         /\ r.response.status = 400
         /\ r.response.error = "Already at final phase"
         /\ SessionView(r.world) = SessionView(World)

\* an Advance was refused at the last phase of a session that has a history
C2_Witness ==
  /\ response.op = "advance" /\ response.status = 400
  /\ response.error = "Already at final phase"
  /\ current_session # <<>>
  /\ current_session[1].current_phase_name = "implement"
  /\ Len(ActionLog) >= 3

\* C6: Initialize, Advance, Jump and GenerateForPhase on an unknown scenario,
\* Jump to a phase that is not in the scenario's list and Jump without a phase
\* all answer with an error and leave the session as it was.
C6_ErrorsLeaveSession ==
  /\ \A sid \in UnknownIds :
       /\ LET r == InitializeWorkflow(World, sid)
          IN r.response.status >= 400 /\ SessionView(r.world) = SessionView(World)
       /\ LET r == AdvancePhase(World, sid, TRUE)
          IN r.response.status >= 400 /\ SessionView(r.world) = SessionView(World)
       /\ \A phase \in PhaseArgs :
            LET r == JumpToPhase(World, sid, phase)
            IN r.response.status >= 400 /\ SessionView(r.world) = SessionView(World)
       /\ \A phase \in PhaseArgs \ {NoPhase} :
            LET r == GenerateArtifactForPhase(World, sid, phase)
            IN r.response.status >= 400 /\ SessionView(r.world) = SessionView(World)
  /\ \A sid \in KnownIds :
       \A phase \in PhaseArgs :
         (phase = NoPhase \/ IndexOfPhase(PhasesOf(sid), phase) = 0) =>
           LET r == JumpToPhase(World, sid, phase)
           IN r.response.status = 400 /\ SessionView(r.world) = SessionView(World)

\* a Jump to a phase outside the scenario's list was refused in mid-workflow
C6_Witness ==
  /\ response.op = "jump" /\ response.status = 400 /\ response.error = "Phase not found"
  /\ current_session # <<>>
  /\ current_session[1].current_scenario_id # None
  /\ DOMAIN current_session[1].phase_inputs # {}

\* C7: Jump to any phase of the scenario's list succeeds from any current
\* phase, makes exactly that phase current and reports its position.
C7_JumpAnywhere ==
  \A sid \in KnownIds :
    \A k \in 1..Len(PhasesOf(sid)) :
      LET target == PhasesOf(sid)[k]
          r == JumpToPhase(World, sid, target)
      IN /\ r.response.status = 200
         /\ r.response.phase_index = k - 1
         /\ r.response.current_phase = target
         /\ r.world.session[1].current_phase_name = target
         /\ r.world.session[1].current_scenario_id = sid

\* a Jump back from the last phase to the first one succeeded
C7_Witness ==
  /\ response.op = "jump" /\ response.status = 200 /\ response.phase_index = 0
  /\ current_session[1].current_phase_name = "specify"
  /\ Len(ActionLog) >= 6
  /\ ActionLog[Len(ActionLog) - 3].action_detail = <<"Jumped to ", "implement">>

\* C8: Initialize of a scenario with a non-empty phase list stores the first
\* declared phase as the current phase, returns that phase with index 0, and
\* the stored and the returned phase agree.
C8_InitializeFirstPhase ==
  (response.op = "initialize" /\ response.status = 200) =>
    /\ response.phase_index = 0
    /\ response.current_phase = PhasesOf(response.scenario_id)[1]
    /\ current_session[1].current_scenario_id = response.scenario_id
    /\ current_session[1].current_phase_name = response.current_phase

\* the phase-input map and the action log of an optional session
InputsOf(session) == IF session = <<>> THEN <<>> ELSE session[1].phase_inputs
LogOf(session) == IF session = <<>> THEN <<>> ELSE session[1].action_log

Range(s) == {s[i] : i \in DOMAIN s}

\* the words of a text: its tokens other than line ends and rule dashes
Atoms(text) == Range(text) \ {NL, HR}

\* text occurs in s as a run of consecutive tokens
Occurs(text, s) ==
  \E k \in 0..(Len(s) - Len(text)) : \A i \in 1..Len(text) : s[k + i] = text[i]

PhasesLogged(log) ==
  SelectSeq(log, LAMBDA e : e.action_type = "phase_input")

\* C3: with texts that hold neither the marker nor a rule line, every cached
\* artifact has at most one Previous Context block, every artifact that can
\* be generated next has at most one, and generating a phase again with the
\* other entries unchanged does not make its markdown longer.
C3_ContextNeverNests ==
  /\ \A phase \in DOMAIN InputsOf(current_session) :
       CountTok(InputsOf(current_session)[phase].artifact_markdown, MARK) <= 1
  /\ \A sid \in KnownIds, phase \in ValidPhases :
       LET first == GenerateArtifactForPhase(World, sid, phase)
           again == GenerateArtifactForPhase(first.world, sid, phase)
       IN first.response.status = 200 =>
            /\ CountTok(first.response.artifact.content_markdown, MARK) <= 1
            /\ again.response.status = 200
            /\ Len(again.response.artifact.content_markdown)
                 <= Len(first.response.artifact.content_markdown)
            /\ (phase \in DOMAIN InputsOf(current_session)
                /\ InputsOf(current_session)[phase].artifact.present
                /\ InputsOf(current_session)[phase].artifact_markdown
                     = first.response.artifact.content_markdown)
               => InputsOf(again.world.session) = InputsOf(first.world.session)

\* the cached implement artifact quotes a tasks artifact that quoted a plan
\* artifact that had a Previous Context block of its own
C3_Witness ==
  /\ response.op = "generate" /\ response.status = 200 /\ response.phase = "implement"
  /\ {"plan", "tasks", "implement"} \subseteq DOMAIN InputsOf(current_session)
  /\ CountTok(InputsOf(current_session)["plan"].artifact_markdown, MARK) = 1
  /\ CountTok(InputsOf(current_session)["tasks"].artifact_markdown, "> **From Plan Phase:**") = 1
  /\ CountTok(InputsOf(current_session)["implement"].artifact_markdown, "> **From Tasks Phase:**") = 1
  /\ CountTok(InputsOf(current_session)["implement"].artifact_markdown, MARK) = 1

\* the Previous Context section of a tasks artifact: from its marker up to its
\* "## Overview" heading
TasksContextSection(markdown) ==
  Slice(markdown, FindTok(markdown, MARK, 1), FindTok(markdown, "## Overview", 1) - 1)

\* C4: when the cached plan artifact has a Previous Context block quoting the
\* specify output, the tasks artifact generated afterwards embeds the plan
\* body once, and no word of the specify text shows in the tasks artifact's
\* Previous Context section.
C4_TasksEmbedsPlanBodyOnce ==
  LET inputs == InputsOf(current_session)
      plan_markdown == ArtifactMarkdownOf(inputs, "plan")
      tasks_markdown == response.artifact.content_markdown
  IN (/\ response.op = "generate" /\ response.status = 200 /\ response.phase = "tasks"
      /\ CountTok(plan_markdown, MARK) = 1
      /\ CountTok(plan_markdown, "> **From Specify Phase:**") = 1
      /\ Occurs(InputOf(inputs, "specify"), plan_markdown)
      /\ Atoms(InputOf(inputs, "specify")) \cap Atoms(InputOf(inputs, "plan")) = {})
     =>
     /\ CountTok(tasks_markdown, MARK) = 1
     /\ CountTok(TasksContextSection(tasks_markdown), "# Implementation Plan: ") = 1
     /\ Atoms(InputOf(inputs, "specify")) \cap Range(TasksContextSection(tasks_markdown)) = {}

\* C5: SubmitInput naming an unknown scenario, or a phase outside the five
\* phase names, reports an error and leaves the phase-input map and the
\* action log exactly as they were.
C5_SubmitErrorMutatesNothing ==
  [][ (/\ response'.op = "submit"
       /\ \/ response'.scenario_id \notin KnownIds
          \/ response'.phase \notin ValidPhases)
      => /\ response'.status >= 400
         /\ InputsOf(current_session') = InputsOf(current_session)
         /\ LogOf(current_session') = LogOf(current_session) ]_vars

\* C9: after SubmitInput(phase, text, clarifications) a read of the phase
\* inputs returns exactly that text and that clarification list, whatever
\* the phase held before.
C9_SubmitReadRoundTrip ==
  \A sid \in ScenarioIds, phase \in PhaseArgs \ {NoPhase},
     text \in Texts, clarifications \in ClarificationLists :
    LET r == SubmitPhaseInput(World, sid, phase, text, clarifications)
        read == GetPhaseInputs(r.world, sid).response.phase_inputs
    IN /\ phase \in DOMAIN read
       /\ read[phase].input = text
       /\ read[phase].clarifications = clarifications

\* a phase was submitted twice with different texts, and the read that
\* followed returned the second text
C9_Witness ==
  /\ response.op = "inputs" /\ response.status = 200
  /\ Len(PhasesLogged(ActionLog)) = 2
  /\ PhasesLogged(ActionLog)[1].action_detail = PhasesLogged(ActionLog)[2].action_detail
  /\ "specify" \in DOMAIN response.phase_inputs
  /\ response.phase_inputs["specify"].input = <<>>
  /\ response.phase_inputs["specify"].artifact.present

\* C10: after a successful SubmitInput the phase's entry holds the submitted
\* input and clarifications and the artifact this call generated from them,
\* its stored markdown is the artifact's markdown, and one phase_input action
\* was appended to the log.
C10_SubmitStoresArtifact ==
  \A sid \in ScenarioIds, phase \in PhaseArgs \ {NoPhase},
     text \in Texts, clarifications \in ClarificationLists :
    LET r == SubmitPhaseInput(World, sid, phase, text, clarifications)
        entry == InputsOf(r.world.session)[phase]
        before == DictPut(InputsOf(current_session), phase,
                          PhaseEntry(text, clarifications, TRUE, NoArtifact))
    IN r.response.status = 200 =>
         /\ entry.input = text
         /\ entry.clarifications = clarifications
         /\ r.response.artifact.present
         /\ r.response.artifact.phase_name = phase
         /\ entry.artifact = r.response.artifact
         /\ entry.artifact_markdown = r.response.artifact.content_markdown
         /\ r.response.artifact =
              GenerateWithContext(phase, FixedScenarios[sid],
                BuildArtifactContext(FixedScenarios[sid], phase, text,
                                     clarifications, before)).artifact
         /\ Occurs(text, r.response.artifact.content_markdown)
         /\ LogOf(r.world.session) =
              Append(LogOf(current_session),
                     LogEntry("phase_input", <<"User input submitted for ", phase>>))

\* a SubmitInput for the plan phase succeeded over an entry that was there
C10_Witness ==
  /\ response.op = "submit" /\ response.status = 200 /\ response.phase = "plan"
  /\ Len(ActionLog) >= 2
  /\ ActionLog[Len(ActionLog)].action_type = "phase_input"
  /\ InputsOf(current_session)["plan"].artifact = response.artifact
  /\ InputsOf(current_session)["plan"].input = PlainText
  /\ "specify" \in DOMAIN InputsOf(current_session)

\* C11: GenerateForPhase leaves every stored input text and clarification
\* list, the current scenario, the current phase and the action log as they
\* were; on the session it only replaces the requested phase's cached
\* artifact and markdown by the artifact it returns.
C11_GenerateFrame ==
  \A sid \in ScenarioIds, phase \in PhaseArgs \ {NoPhase} :
    LET r == GenerateArtifactForPhase(World, sid, phase)
        before == InputsOf(current_session)
        after == InputsOf(r.world.session)
    IN /\ SessionView(r.world).scenario = SessionView(World).scenario
       /\ SessionView(r.world).phase = SessionView(World).phase
       /\ SessionView(r.world).log = SessionView(World).log
       /\ \A p \in DOMAIN before :
            /\ p \in DOMAIN after
            /\ after[p].input = before[p].input
            /\ after[p].clarifications = before[p].clarifications
            /\ p # phase => after[p] = before[p]
       /\ \A p \in PhaseArgs :
            /\ InputOf(after, p) = InputOf(before, p)
            /\ ClarificationsOf(after, p) = ClarificationsOf(before, p)
       /\ DOMAIN after \subseteq (DOMAIN before) \cup {phase}
       /\ r.response.status = 200 =>
            /\ after[phase].artifact = r.response.artifact
            /\ after[phase].artifact_markdown = r.response.artifact.content_markdown
       /\ r.response.status # 200 => after = before

\* a plan artifact was generated over a plan entry that held a submitted text,
\* in a session with a current scenario and phase
C11_Witness ==
  /\ response.op = "generate" /\ response.status = 200 /\ response.phase = "plan"
  /\ current_session[1].current_scenario_id # None
  /\ current_session[1].current_phase_name # None
  /\ InputsOf(current_session)["plan"].input = PlainText
  /\ InputsOf(current_session)["plan"].clarifications = LiveClarifications
  /\ InputsOf(current_session)["plan"].artifact = response.artifact

\* C12: GenerateForPhase called twice in a row for the same scenario and
\* phase returns the same markdown both times, from every reachable state
\* and for every phase, also when the phase had no entry before.
C12_GenerateIdempotent ==
  \A sid \in ScenarioIds, phase \in PhaseArgs \ {NoPhase} :
    LET first == GenerateArtifactForPhase(World, sid, phase)
        again == GenerateArtifactForPhase(first.world, sid, phase)
    IN /\ again.response.status = first.response.status
       /\ again.response.artifact = first.response.artifact
       /\ first.response.status = 200 =>
            /\ first.response.artifact.present
            /\ InputsOf(again.world.session) = InputsOf(first.world.session)

\* the tasks phase, which had no entry of its own, was generated over a
\* cached plan artifact built from a specify text with a rule line
C12_Witness ==
  /\ response.op = "generate" /\ response.status = 200 /\ response.phase = "tasks"
  /\ {"specify", "plan", "tasks"} \subseteq DOMAIN InputsOf(current_session)
  /\ InputsOf(current_session)["specify"].input = RuleText
  /\ InputsOf(current_session)["plan"].artifact.present
  /\ InputsOf(current_session)["tasks"].input = <<>>
  /\ ~InputsOf(current_session)["tasks"].submitted_at

\* C13: after Reset, from any reachable state, the session is a new one with
\* a new identifier, no current scenario, no current phase and an empty
\* phase-input map; no custom scenario is left, none is listed, and Initialize
\* on the identifier of one that existed answers NotFound.
C13_ResetClearsEverything ==
  LET r == ResetWorkflow(World)
      session == r.world.session[1]
  IN /\ r.response.status = 200
     /\ session.session_id > sessions_created
     /\ current_session # <<>> => session.session_id # current_session[1].session_id
     /\ session.current_scenario_id = None
     /\ session.current_phase_name = None
     /\ session.phase_inputs = <<>>
     /\ GetPhaseInputs(r.world, "user-authentication").response.phase_inputs = <<>>
     /\ r.world.custom = <<>>
     /\ ListScenarioIds(r.world) = DOMAIN FixedScenarios
     /\ \A sid \in CustomIds :
          LET i == InitializeWorkflow(r.world, sid)
          IN /\ sid \notin ListScenarioIds(r.world)
             /\ i.response.status = 404
             /\ SessionView(i.world) = SessionView(r.world)

\* a Reset removed two custom scenarios and replaced an earlier session
C13_Witness ==
  /\ response.op = "reset" /\ response.status = 200 /\ response.removed = 2
  /\ sessions_created = 2
  /\ custom_scenarios = <<>>
  /\ current_session[1].phase_inputs = <<>>
  /\ current_session[1].current_scenario_id = None

\* the Previous Context section of a plan artifact: from its marker up to its
\* "## Executive Summary" heading; empty when the artifact has no marker
PlanContextSection(markdown) ==
  IF FindTok(markdown, MARK, 1) = 0 THEN <<>>
  ELSE Slice(markdown, FindTok(markdown, MARK, 1),
             FindTok(markdown, "## Executive Summary", 1) - 1)

\* an Initialize, then a SubmitInput for specify, then a successful Advance
\* are in the log, in that order
SpecifyThenAdvanceLogged(log) ==
  \E i, j, k \in 1..Len(log) :
    /\ i < j /\ j < k
    /\ log[i].action_type = "scenario_select"
    /\ log[j] = LogEntry("phase_input", <<"User input submitted for ", "specify">>)
    /\ log[k].action_detail[1] = "Advanced to "

\* C14: after Initialize, SubmitInput("specify", t) with a non-empty t and
\* Advance, GenerateForPhase("plan") returns a plan artifact whose Previous
\* Context section quotes t literally, whatever t and the current phase are.
C14_PlanQuotesSpecifyText ==
  (/\ response.op = "generate" /\ response.status = 200 /\ response.phase = "plan"
   /\ SpecifyThenAdvanceLogged(ActionLog)
   /\ InputOf(InputsOf(current_session), "specify") # <<>>)
  => /\ CountTok(response.artifact.content_markdown, MARK) = 1
     /\ Occurs(<<"> **From Specify Phase:**", NL, "> ">>
                 \o InputOf(InputsOf(current_session), "specify"),
               PlanContextSection(response.artifact.content_markdown))

\* C20: a successful Advance that leaves "plan" with the checker available
\* carries a non-null constitution check; a successful Advance that leaves
\* any other phase carries none.
C20_AdvanceFromPlanCarriesCheck ==
  \A sid \in KnownIds :
    LET left == SessionView(World).phase
        r == AdvancePhase(World, sid, TRUE)
    IN r.response.status = 200 =>
         IF left = "plan"
         THEN r.response.constitution_check # None
         ELSE r.response.constitution_check = None

\* C18: between resets the phase-input map only grows: no operation removes
\* an entry, and an entry that holds a cached artifact still holds one after
\* every later operation, failed ones included.
C18_EntriesKeepArtifact ==
  [][ response'.op # "reset" =>
        \A p \in DOMAIN InputsOf(current_session) :
          /\ p \in DOMAIN InputsOf(current_session')
          /\ InputsOf(current_session)[p].artifact.present
               => InputsOf(current_session')[p].artifact.present ]_vars

\* log a is an initial segment of log b
IsPrefix(a, b) == Len(a) <= Len(b) /\ SubSeq(b, 1, Len(a)) = a

\* C19: between resets the action log is append-only: the log before an
\* operation is a prefix of the log after it, and every successful
\* Initialize, Advance, Jump and SubmitInput appends at least one entry.
C19_LogAppendOnly ==
  [][ response'.op # "reset" =>
        /\ IsPrefix(LogOf(current_session), LogOf(current_session'))
        /\ (response'.op \in {"initialize", "advance", "jump", "submit"}
             /\ response'.status = 200)
             => Len(LogOf(current_session')) > Len(LogOf(current_session)) ]_vars

\* a SubmitInput succeeded on a session whose log already held the entries of
\* an Initialize and an Advance
C19_Witness ==
  /\ response.op = "submit"
  /\ response.status = 200
  /\ Len(LogOf(current_session)) >= 5
  /\ \E i \in 1..Len(LogOf(current_session)) :
       LogOf(current_session)[i].action_detail[1] = "Advanced to "

\* C16: two concurrent Advance requests from phase index i with
\* i + 2 <= last index both succeed, leave the session at index i + 2, and
\* report distinct phase_index values.
C16_ConcurrentAdvancesBothCount ==
  LET a == threads["t1"]
      b == threads["t2"]
      phases == PhasesOf(a.scenario_id)
      i == Min(a.current_index, b.current_index)
  IN (/\ AllDone
      /\ a.op = "advance" /\ b.op = "advance"
      /\ a.scenario_id = b.scenario_id
      /\ i >= 0 /\ i + 2 <= Len(phases) - 1)
     => /\ a.status = 200 /\ b.status = 200
        /\ PositionIn(World, phases) = i + 2
        /\ a.phase_index # b.phase_index

\* C15: after two concurrent SubmitInput requests for the same phase, the
\* entry a session holds for that phase pairs an input text with the
\* artifact generated from that very text: it is the input and the artifact
\* of one and the same request.
C15_EntryPairsInputWithItsArtifact ==
  LET a == threads["t1"]
      b == threads["t2"]
  IN (/\ AllDone
      /\ a.op = "submit" /\ b.op = "submit"
      /\ a.phase_name = b.phase_name
      /\ a.status = 200 /\ b.status = 200)
     => \A session \in AllSessions :
          a.phase_name \in DOMAIN session.phase_inputs =>
            LET entry == session.phase_inputs[a.phase_name]
            IN \E t \in Threads :
                 /\ entry.input = threads[t].user_input
                 /\ entry.artifact = threads[t].artifact
                 /\ entry.artifact_markdown = threads[t].artifact.content_markdown

\* C17: one session is live at any time, also when the first requests of a
\* process arrive together: the requests that found no session operate on
\* the same session object, so a SubmitInput answered with success is seen
\* by a later read of the phase inputs.
C17_OneSessionForConcurrentFirstRequests ==
  AllDone =>
    /\ \A t, u \in Threads :
         (threads[t].session # 0 /\ threads[u].session # 0)
           => threads[t].session = threads[u].session
    /\ \A t \in Threads :
         (threads[t].op = "submit" /\ threads[t].status = 200)
           => threads[t].phase_name
                \in DOMAIN GetPhaseInputs(World, threads[t].scenario_id).response.phase_inputs

\* C21: a failure of the constitution checker while leaving "plan" never
\* aborts the transition: the Advance succeeds, the session's current phase
\* is the phase after plan, the advance is logged, and the response carries
\* no check result.
C21_CheckerFailureKeepsTransition ==
  \A sid \in KnownIds :
    LET phases == PhasesOf(sid)
        i == PositionIn(World, phases)
        r == AdvancePhase(World, sid, FALSE)
        log == LogOf(r.world.session)
    IN (SessionView(World).phase = "plan" /\ i >= 0 /\ i < Len(phases) - 1) =>
         /\ r.response.status = 200
         /\ SessionView(r.world).phase = phases[i + 2]
         /\ r.response.current_phase = phases[i + 2]
         /\ Len(log) = Len(LogOf(World.session)) + 3
         /\ log[Len(log)] = LogEntry("phase_advance", <<"Advanced to ", phases[i + 2]>>)
         /\ r.response.constitution_check = None

\* an Advance left "plan", was answered with success and carried no check
C21_Witness ==
  /\ response.op = "advance"
  /\ response.status = 200
  /\ response.current_phase = "tasks"
  /\ response.constitution_check = None
  /\ current_session # <<>>
  /\ current_session[1].current_phase_name = "tasks"
  /\ Len(ActionLog) >= 3
  /\ ActionLog[Len(ActionLog) - 1] = LogEntry("phase_advance", <<"Moved to phase: ", "tasks">>)

\* C22: every successful Advance response carries a freshly generated
\* artifact for the phase being left, also when the caller never submitted
\* input and never requested generation for that phase.
C22_AdvanceCarriesArtifactOfLeftPhase ==
  \A sid \in KnownIds, checker_ok \in BOOLEAN :
    LET r == AdvancePhase(World, sid, checker_ok)
        left == IF SessionView(World).phase # None
                THEN SessionView(World).phase ELSE "specify"
    IN (SessionView(World).scenario = sid /\ r.response.status = 200) =>
         /\ r.response.previous_phase_artifact.present
         /\ r.response.previous_phase_artifact.phase_name = left

\* C23: a successful custom-scenario creation adds exactly one scenario, under
\* an identifier no scenario of the catalog has yet, whatever the title and
\* whatever the random suffix; it never replaces an existing custom scenario.
C23_CreateAddsFreshId ==
  \A data \in CatalogRequests, hex \in HexIds :
    LET r == CreateCustomScenario(World, data, hex)
    IN r.response.status = 201 =>
         /\ r.response.scenario_id \notin ListScenarioIds(World)
         /\ DOMAIN r.world.custom = DOMAIN custom_scenarios \cup {r.response.scenario_id}
         /\ \A k \in DOMAIN custom_scenarios : r.world.custom[k] = custom_scenarios[k]

\* a text of n characters
RECURSIVE Repeat(_, _)
Repeat(c, n) ==
  IF n = 0 THEN ""
  ELSE LET half == Repeat(c, n \div 2)
       IN IF n % 2 = 0 THEN half \o half ELSE half \o half \o c

\* the lengths of a trimmed title and of a trimmed description around the
\* limits of the two rules
TitleLengths == {0, 4, 5, 100, 101}
DescriptionLengths == {0, 19, 20, 500, 501}

\* creation requests whose title and description have a known length once
\* trimmed, sent bare or with blanks around both texts
ValidationCases ==
  { [ title_len |-> t, description_len |-> d,
      data |-> [TodoData EXCEPT
                  !.title = pad \o Repeat("T", t) \o pad,
                  !.description = pad \o Repeat("d", d) \o pad] ] :
      t \in TitleLengths, d \in DescriptionLengths, pad \in {"", "  "} }

\* the messages of a list that begin with a field's name
ErrorsAbout(errors, name) ==
  {i \in 1..Len(errors) : SubSeq(errors[i], 1, Len(name)) = name}

\* C24: a creation request whose trimmed title is outside 5-100 characters or
\* whose trimmed description is outside 20-500 characters is rejected with a
\* list that names every violated rule, and the custom-scenario set (and the
\* rest of the state) is exactly as before.
C24_InvalidCreationRejected ==
  \A c \in ValidationCases, hex \in HexIds :
    LET r == CreateCustomScenario(World, c.data, hex)
        bad_title == c.title_len < 5 \/ c.title_len > 100
        bad_description == c.description_len < 20 \/ c.description_len > 500
    IN /\ (bad_title \/ bad_description) =>
            /\ r.response.status = 400
            /\ r.world = World
            /\ bad_title <=> ErrorsAbout(r.response.errors, "Title") # {}
            /\ bad_description <=> ErrorsAbout(r.response.errors, "Description") # {}
            /\ Len(r.response.errors) =
                 (IF bad_title THEN 1 ELSE 0) + (IF bad_description THEN 1 ELSE 0)
       /\ ~(bad_title \/ bad_description) => r.response.status = 201

\* a creation with a title and a description both too short once trimmed was
\* rejected with two messages while a custom scenario was stored
C24_Witness ==
  /\ response.op = "create_custom"
  /\ response.status = 400
  /\ Len(response.errors) = 2
  /\ ErrorsAbout(response.errors, "Title") # {}
  /\ ErrorsAbout(response.errors, "Description") # {}
  /\ custom_scenarios # <<>>

\* C26: deleting a custom scenario removes exactly that identifier from the
\* custom set and changes nothing else (the other custom scenarios, the fixed
\* scenarios, the session); deleting an identifier that is not in the custom
\* set, the identifier of a fixed scenario included, reports NotFound and
\* changes nothing.
C26_DeleteRemovesExactlyOne ==
  \A sid \in DeleteIds :
    LET r == DeleteCustomScenario(World, sid)
    IN IF sid \in DOMAIN custom_scenarios
       THEN /\ r.response.status = 200
            /\ DOMAIN r.world.custom = DOMAIN custom_scenarios \ {sid}
            /\ \A k \in DOMAIN r.world.custom : r.world.custom[k] = custom_scenarios[k]
            /\ r.world.session = current_session
            /\ r.world.created = sessions_created
            /\ ListScenarioIds(r.world) = ListScenarioIds(World) \ {sid}
            /\ GetScenarioById(r.world, sid) = <<>>
            /\ \A k \in ListScenarioIds(r.world) :
                 GetScenarioById(r.world, k) = GetScenarioById(World, k)
       ELSE /\ r.response.status = 404
            /\ r.world = World
            /\ \A k \in DOMAIN FixedScenarios :
                 GetScenarioById(r.world, k) = <<FixedScenarios[k]>>

\* one of two custom scenarios was deleted while a session was live
C26_Witness ==
  /\ response.op = "delete_custom"
  /\ response.status = 200
  /\ Cardinality(DOMAIN custom_scenarios) = 1
  /\ response.scenario_id \notin DOMAIN custom_scenarios
  /\ current_session # <<>>

\* C25: a fixed scenario definition that violates the validation constraints
\* is rejected with an error when it is loaded: listing the scenarios reports
\* the failure instead of leaving the definition out, and a lookup of its
\* identifier is not answered NotFound as for a scenario that does not exist.
C25_InvalidDefinitionRejected ==
  \A sid \in DOMAIN ScenarioFiles :
    ~PostInit(ScenarioFiles[sid]) =>
      /\ ListScenarios(World).response.status >= 400
      /\ InitializeWorkflow(World, sid).response.status # 404

\* C29: generating an artifact for a phase name outside the five known phases
\* succeeds with a placeholder document, through GenerateForPhase and through
\* SubmitInput alike; it is not an error.
C29_UnknownPhaseGivesPlaceholder ==
  (/\ response.op \in {"generate", "submit"}
   /\ response.scenario_id \in KnownIds
   /\ response.phase \notin ValidPhases \cup {NoPhase, None})
  => /\ response.status = 200
     /\ response.artifact.present
     /\ response.artifact.phase_name = response.phase

\* the quote headers of the upstream sources a Previous Context section shows
SourceHeaders ==
  { "> **User Input from Specify Phase:**", "> **From Specify Phase:**",
    "> **From Clarify Phase:**", "> **From Plan Phase:**", "> **From Tasks Phase:**" }

\* the upstream sources quoted in the Previous Context section of a document:
\* the headers between its marker and the rule that closes the section
SourcesQuoted(markdown) ==
  LET start == FindTok(markdown, MARK, 1)
      stop == IF start = 0 THEN 0 ELSE FindTok(markdown, HR, start)
      section == IF start = 0 THEN <<>>
                 ELSE Slice(markdown, start, IF stop = 0 THEN Len(markdown) ELSE stop)
  IN {h \in SourceHeaders : CountTok(section, h) > 0}

\* C27: the Previous Context section of a clarify, plan, tasks or implement
\* artifact quotes one upstream source only, never two together.
C27_ContextQuotesOneSource ==
  (/\ response.op \in {"generate", "submit"}
   /\ response.status = 200
   /\ response.phase \in {"clarify", "plan", "tasks", "implement"})
  => Cardinality(SourcesQuoted(response.artifact.content_markdown)) <= 1

\* the source a routine is to quote: the first non-empty one of its
\* precedence order, as <<header, text>>; <<>> when every source is empty
ChosenSource(phase_name, context) ==
  LET order == IF phase_name = "tasks"
               THEN << <<"> **From Plan Phase:**", context.plan_input>>,
                       <<"> **From Clarify Phase:**", context.clarifications>>,
                       <<"> **From Specify Phase:**", context.specify_input>> >>
               ELSE IF phase_name = "implement"
               THEN << <<"> **From Tasks Phase:**", context.tasks_input>>,
                       <<"> **From Plan Phase:**", context.plan_input>>,
                       <<"> **From Clarify Phase:**", context.clarifications>>,
                       <<"> **From Specify Phase:**", context.specify_input>> >>
               ELSE <<>>
      filled == SelectSeq(order, LAMBDA src : src[2] # <<>>)
  IN IF filled = <<>> THEN <<>> ELSE filled[1]

\* C28: the tasks routine quotes the plan output if it is non-empty, else the
\* clarifications if non-empty, else the specify output; the implement
\* routine quotes the tasks output, else the plan output, else the
\* clarifications, else the specify output; the section is there exactly
\* when the chosen source is non-empty, and the specify routine emits none.
C28_ContextFollowsPrecedence ==
  \A sid \in KnownIds, phase \in {"specify", "tasks", "implement"} :
    LET inputs == InputsOf(current_session)
        r == GenerateArtifactForPhase(World, sid, phase)
        markdown == r.response.artifact.content_markdown
        context == BuildArtifactContext(GetScenarioById(World, sid)[1], phase,
                     InputOf(inputs, phase), ClarificationsOf(inputs, phase), inputs)
        chosen == ChosenSource(phase, context)
    IN r.response.status = 200 =>
         IF chosen = <<>>
         THEN CountTok(markdown, MARK) = 0 /\ SourcesQuoted(markdown) = {}
         ELSE /\ CountTok(markdown, MARK) >= 1
              /\ SourcesQuoted(markdown) = {chosen[1]}
              /\ Occurs(<<chosen[1], NL, "> ">> \o chosen[2], markdown)

\* the scenarios a context is built for: the fixed ones, the custom ones of
\* the catalog, and each custom one carrying a preset list
ContextScenarios ==
  {FixedScenarios[x] : x \in DOMAIN FixedScenarios}
    \cup {custom_scenarios[x] : x \in DOMAIN custom_scenarios}
    \cup {[custom_scenarios[x] EXCEPT !.demo_clarifications =
              FixedScenarios["user-authentication"].demo_clarifications] :
            x \in DOMAIN custom_scenarios}

UnansweredClarifications == << [question |-> "Is MFA needed?", answer |-> <<>>] >>
ExplicitLists == {<<>>, LiveClarifications, UnansweredClarifications}
PresetPhases == {"clarify", "plan", "tasks", "implement"}

\* C30: the context's clarifications are the explicit list of the request
\* when it is non-empty; the scenario's preset list is used exactly when the
\* explicit list is empty, the scenario is not custom and the target phase is
\* clarify, plan, tasks or implement; for a custom scenario, or for the
\* specify phase, an empty explicit list resolves to no clarifications and an
\* empty formatted string.
C30_ClarificationsResolved ==
  \A scenario \in ContextScenarios, explicit \in ExplicitLists :
    \A phase \in PresetPhases \cup {"specify"} :
      LET context == BuildArtifactContext(scenario, phase, <<>>, explicit,
                                          InputsOf(current_session))
          preset == explicit = <<>> /\ ~scenario.is_custom /\ phase \in PresetPhases
      IN /\ explicit # <<>> => context.clarifications_list = explicit
         /\ preset => context.clarifications_list = scenario.demo_clarifications
         /\ (explicit = <<>> /\ ~preset) =>
               context.clarifications_list = <<>> /\ context.clarifications = <<>>
         /\ \A c \in Range(context.clarifications_list) :
               c.answer # <<>> =>
                 Occurs(<<"**Q:** ", c.question, NL, "**A:** ">> \o c.answer,
                        context.clarifications)

\* an artifact was generated for the specify phase of a custom scenario from
\* a request holding no clarifications, and shows none
C30_Witness ==
  /\ response.op = "submit" /\ response.status = 200
  /\ response.phase = "specify"
  /\ response.scenario_id \in DOMAIN custom_scenarios
  /\ response.artifact.present
  /\ CountTok(response.artifact.content_markdown, "**Q:** ") = 0
  /\ ClarificationsOf(InputsOf(current_session), "specify") = <<>>

\* the answered entries of a clarification list
Answered(clarifications) == SelectSeq(clarifications, LAMBDA c : c.answer # <<>>)

\* C31: the clarification answers submitted live for the clarify phase are
\* the clarifications used when plan, tasks or implement is generated; the
\* scenario's presets are used only when the session holds no live answers.
C31_LiveAnswersReachLaterPhases ==
  LET inputs == InputsOf(current_session)
      live == Answered(ClarificationsOf(inputs, "clarify"))
      scenario == GetScenarioById(World, response.scenario_id)[1]
      phase == response.phase
      context == BuildArtifactContext(scenario, phase, InputOf(inputs, phase),
                                      ClarificationsOf(inputs, phase), inputs)
  IN (/\ response.op = "generate" /\ response.status = 200
      /\ phase \in {"plan", "tasks", "implement"}
      /\ live # <<>>)
     => /\ Answered(context.clarifications_list) = live
        /\ phase = "plan" =>
              \A c \in Range(live) :
                Occurs(<<"**Q:** ", c.question, NL, "**A:** ">> \o c.answer,
                       response.artifact.content_markdown)

\* the output of a phase as the context is to hold it: the stripped markdown
\* of the entry's cached artifact, else the entry's raw input, else empty
PhaseOutput(inputs, phase) ==
  IF phase \notin DOMAIN inputs THEN <<>>
  ELSE IF inputs[phase].artifact_markdown # <<>>
       THEN StripPreviousContextBlock(inputs[phase].artifact_markdown)
       ELSE inputs[phase].input

\* C32: the context's plan output is the stripped markdown of the cached plan
\* artifact when the plan entry has one, otherwise the raw plan input,
\* otherwise empty; the tasks output is resolved the same way from the tasks
\* entry; the specify output is the stored specify input when non-empty,
\* otherwise the scenario's initial prompt.
C32_PhaseOutputsResolved ==
  \A sid \in KnownIds, phase \in ValidPhases :
    LET inputs == InputsOf(current_session)
        scenario == GetScenarioById(World, sid)[1]
        context == BuildArtifactContext(scenario, phase, InputOf(inputs, phase),
                                        ClarificationsOf(inputs, phase), inputs)
    IN /\ context.plan_input = PhaseOutput(inputs, "plan")
       /\ context.tasks_input = PhaseOutput(inputs, "tasks")
       /\ context.specify_input =
            IF "specify" \in DOMAIN inputs /\ inputs["specify"].input # <<>>
            THEN inputs["specify"].input
            ELSE scenario.initial_prompt

\* an implement artifact was generated in a session whose plan entry caches
\* an artifact with a Previous Context block beside a different raw input
C32_Witness ==
  LET inputs == InputsOf(current_session)
  IN /\ response.op = "generate" /\ response.status = 200
     /\ response.phase = "implement"
     /\ "plan" \in DOMAIN inputs
     /\ CountTok(inputs["plan"].artifact_markdown, MARK) >= 1
     /\ inputs["plan"].input # <<>>
     /\ inputs["plan"].input # StripPreviousContextBlock(inputs["plan"].artifact_markdown)

\* the texts around and inside a Previous Context block
Befores ==
  { <<"# Title">>, <<"# Title", NL, NL>>, <<INDENT, "# Title", NL, INDENT>>,
    <<"Intro", NL, HR, NL, "Details", NL>> }
BlockBodies == { <<>>, <<NL, "> quoted">>, <<NL, INDENT, "> quoted", NL>> }
Afters ==
  { <<"Body">>, <<NL, "Body", NL>>, <<INDENT, "Body", NL, HR, NL, "Footer">>,
    <<"Body", NL, MARK, NL, HR, NL, "Tail">> }

\* a block: the marker, what it quotes, and the rule line that ends it
Block(body) == <<MARK>> \o body \o <<NL, HR, NL>>

\* the cached markdown of the session's entries
CachedMarkdowns ==
  LET inputs == InputsOf(current_session)
  IN {inputs[p].artifact_markdown : p \in DOMAIN inputs}

\* positions of the first marker of a text, of the newline before the first
\* rule line after it, and of the newline that ends that rule line
\* least element of a non-empty set of positions
First(S) == CHOOSE i \in S : \A j \in S : i <= j
MarkerAt(t) == First({i \in 1..Len(t) : t[i] = MARK})
RuleAt(t) == First({i \in MarkerAt(t)..(Len(t) - 1) : t[i] = NL /\ t[i + 1] = HR})
RuleEndAt(t) == First({i \in (RuleAt(t) + 1)..Len(t) : t[i] = NL})
NonBlank(t) == \E i \in 1..Len(t) : ~IsSpace(t[i])

\* a text with text before and after its first block
HasBlockInside(t) ==
  /\ \E i \in 1..Len(t) : t[i] = MARK
  /\ \E i \in MarkerAt(t)..(Len(t) - 1) : t[i] = NL /\ t[i + 1] = HR
  /\ \E i \in (RuleAt(t) + 1)..Len(t) : t[i] = NL
  /\ NonBlank(SubSeq(t, 1, MarkerAt(t) - 1))
  /\ NonBlank(SubSeq(t, RuleEndAt(t) + 1, Len(t)))

\* C33: for a text with text before and after a Previous Context block,
\* stripping returns the text before the marker with its trailing whitespace
\* trimmed, one blank line, and the text after the rule line that ends the
\* block with its leading whitespace trimmed; a text without the marker is
\* returned unchanged.
C33_StripRemovesExactlyTheBlock ==
  /\ \A before \in Befores, body \in BlockBodies, after \in Afters :
        StripPreviousContextBlock(before \o Block(body) \o after)
          = RStrip(before) \o <<NL, NL>> \o LStrip(after)
  /\ \A t \in Befores \cup {<<>>, <<NL, HR, NL>>, <<"Body", NL, HR, NL, "Footer", NL>>} :
        StripPreviousContextBlock(t) = t
  /\ \A t \in CachedMarkdowns :
        IF HasBlockInside(t)
        THEN StripPreviousContextBlock(t)
               = RStrip(SubSeq(t, 1, MarkerAt(t) - 1)) \o <<NL, NL>>
                   \o LStrip(SubSeq(t, RuleEndAt(t) + 1, Len(t)))
        ELSE CountTok(t, MARK) = 0 => StripPreviousContextBlock(t) = t

\* a tasks artifact was generated from a cached plan artifact that holds a
\* block between its title and its body
C33_Witness ==
  LET inputs == InputsOf(current_session)
  IN /\ response.op = "generate" /\ response.status = 200 /\ response.phase = "tasks"
     /\ "plan" \in DOMAIN inputs
     /\ HasBlockInside(inputs["plan"].artifact_markdown)

\* the artifact of the tasks phase generated from a cached plan markdown
TasksArtifactFrom(scenario_id, markdown) ==
  GenerateArtifactWithContext(World, scenario_id, "tasks",
                              MarkdownOnly("plan", markdown)).artifact

\* the tasks artifact quotes a text as the plan output
QuotesPlanOutput(artifact, text) ==
  Occurs(<<MARK, NL, NL, "> **From Plan Phase:**", NL, "> ">> \o text
           \o <<NL, NL, HR, NL>>, artifact.content_markdown)

\* C34: with the marker and no rule line after it the result is the text
\* before the marker with its trailing whitespace trimmed, everything from
\* the marker onward dropped; with the marker at the very start the result is
\* the text after the rule line with its leading whitespace trimmed, so with
\* no leading blank line; an artifact generated from such a markdown quotes
\* that result.
C34_StripEdgeCasesTrimmed ==
  /\ \A text \in TrimmedTexts \cup {<<>>}, blank \in Blanks, tail \in OpenTails :
        StripPreviousContextBlock(text \o blank \o <<MARK>> \o tail) = text
  /\ \A body \in QuotedBodies, blank \in Blanks, text \in TextsAfter \cup {<<>>} :
        StripPreviousContextBlock(<<MARK>> \o body \o <<NL, HR, NL>> \o blank \o text)
          = text
  /\ (/\ response.op = "generate_with_context" /\ response.status = 200
      /\ response.phase = "tasks")
     => /\ \A text \in TrimmedTexts :
             response.artifact
               = TasksArtifactFrom(response.scenario_id,
                                   text \o <<NL, NL, MARK, NL, "> quoted">>)
             => QuotesPlanOutput(response.artifact, text)
        /\ \A text \in TextsAfter :
             response.artifact
               = TasksArtifactFrom(response.scenario_id,
                                   <<MARK, NL, "> quoted", NL, HR, NL, NL>> \o text)
             => QuotesPlanOutput(response.artifact, text)

\* a tasks artifact was generated from a plan markdown whose marker no rule
\* line follows, after a title and a blank line
C34_Witness ==
  /\ response.op = "generate_with_context" /\ response.status = 200
  /\ response.phase = "tasks"
  /\ response.artifact
       = TasksArtifactFrom(response.scenario_id,
                           <<"# Title", NL, NL, MARK, NL, "> quoted">>)
  /\ CountTok(response.artifact.content_markdown, "> quoted") = 0

\* C35: in every reachable state the session's current scenario id is null
\* or the id of a scenario of the catalog, fixed or custom; deleting a custom
\* scenario does not leave the session pointing at it.
C35_SessionScenarioExists ==
  \/ current_session = <<>>
  \/ current_session[1].current_scenario_id = None
  \/ GetScenarioById(World, current_session[1].current_scenario_id) # <<>>

\* C36: Initialize, Advance and Jump never modify the phase-input map: the
\* stored inputs, clarifications and cached artifacts of every phase are the
\* same before and after, also when Initialize is called again in
\* mid-workflow and also for the artifact Advance regenerates for the phase
\* left, which is returned and not cached.
C36_NavigationKeepsInputs ==
  LET before == InputsOf(current_session)
  IN /\ \A sid \in ScenarioIds :
          InputsOf(InitializeWorkflow(World, sid).world.session) = before
     /\ \A a \in AdvanceRequests :
          InputsOf(AdvancePhase(World, a[1], a[2]).world.session) = before
     /\ \A j \in JumpRequests :
          InputsOf(JumpToPhase(World, j[1], j[2]).world.session) = before

\* an Advance returned the regenerated artifact of the phase left while the
\* session holds a stored entry, and an Initialize in mid-workflow would put
\* the current phase back
C36_Witness ==
  /\ response.op = "advance" /\ response.status = 200
  /\ response.previous_phase_artifact.present
  /\ InputsOf(current_session) # <<>>
  /\ current_session[1].current_phase_name # "specify"
  /\ InitializeWorkflow(World, response.scenario_id).world.session[1].current_phase_name
       = "specify"

\* the scenario the session was on when entry i of its log was written: the
\* one of the last scenario_select entry before it, None when there is none
ScenarioAt(log, i) ==
  LET selects == {k \in 1..(i - 1) : log[k].action_type = "scenario_select"}
  IN IF selects = {} THEN None
     ELSE log[CHOOSE k \in selects : \A j \in selects : j <= k].action_detail[2]

\* the stored specify input was submitted while the session was on a
\* scenario other than the one it is on now
SpecifyInputOfOtherScenario ==
  LET log == LogOf(current_session)
      submits == {i \in DOMAIN log : /\ log[i].action_type = "phase_input"
                                     /\ log[i].action_detail[2] = "specify"}
      last == CHOOSE i \in submits : \A j \in submits : j <= i
  IN /\ submits # {}
     /\ ScenarioAt(log, last) \notin {None, current_session[1].current_scenario_id}
     /\ InputOf(InputsOf(current_session), "specify") # <<>>

\* C37: an artifact generated for scenario B never quotes input that was
\* submitted while the session was on a different scenario A: switching
\* scenarios with Initialize(B), without a Reset, does not let A's entries
\* flow into B's context.
C37_NoContextAcrossScenarios ==
  (/\ response.op = "generate" /\ response.status = 200
   /\ current_session # <<>>
   /\ response.scenario_id = current_session[1].current_scenario_id
   /\ SpecifyInputOfOtherScenario)
  => ~Occurs(InputOf(InputsOf(current_session), "specify"),
             response.artifact.content_markdown)

====
